---- MODULE Spec2Model ----
(***************************************************************************)
(* LANControl: network sweep, scan state, device reconciliation and the    *)
(* derived-event helpers of the alert engine, modelled from                *)
(* app/scanner.py, app/api.py, app/scheduler.py, app/alerts.py and         *)
(* app/models.py.                                                          *)
(*                                                                         *)
(* Three specifications share the variables:                               *)
(*   Spec       the concurrent system: manual sweep requests and their     *)
(*              background threads, the timer-driven sweep and poll jobs,  *)
(*              single-device checks, scan-status readers, the store;      *)
(*   SpecSweep  one execution of scan_network, one completed probe at a    *)
(*              time, over every resolver outcome of a small network;      *)
(*   SpecAlerts the derived-event helpers of app/alerts.py called by an    *)
(*              outside caller (no code of the repository calls them).     *)
(***************************************************************************)
EXTENDS Integers, Sequences, FiniteSets, TLC

\* ------------------------------------------------------------------ bounds

\* host addresses of the swept range in SpecSweep
SweepHosts == 2
\* host addresses of the swept range in Spec
NetHosts == 1
\* executions of scan_network in one behaviour of Spec
MaxSweeps == 2
\* trigger_scan requests in one behaviour of Spec
MaxTriggers == 2
\* liveness-window intervals the clock may advance
MaxTicks == 1
\* polls (check_device_statuses runs and check_device requests) in one behaviour
MaxPolls == 2

\* ------------------------------------------------------- program constants

\* Device.status: seconds after which a device not seen is offline
LivenessWindow == 600

\* ------------------------------------------------------------------ values

None == "None"

Macs == {"m1", "m2"}

Names == {"h1"}

\* addresses are 1..n inside the swept range and n+1 outside it; NoIp is Python's None
\* where an address is expected
NoIp == 0

\* Python's None where a datetime is expected (times are seconds >= 0)
Never == -1

SeqRange(s) == {s[i] : i \in 1..Len(s)}

\* every ordering of the elements of S, as sequences without repetition
Orders(S) == {o \in [1..Cardinality(S) -> S] : SeqRange(o) = S}

VARIABLES
  scan_in_progress,    \* scanner._scan_in_progress
  last_scan_time,      \* scanner._last_scan_time: 0 is None, k the utcnow() taken by sweep k
  last_scan_results,   \* scanner._last_scan_results: the list object and the sweep that built it
  nsweeps,             \* executions of scan_network entered so far
  now,                 \* datetime.utcnow(), in seconds
  net,                 \* SpecSweep: what the probes and resolvers answer
  sw,                  \* SpecSweep: the locals of the one scan_network execution
  task,                \* Spec: the sweep threads (manual scan_task threads, the scheduler job)
  trig,                \* Spec: trigger_scan requests answered, and the last answer
  devices,             \* table devices, committed rows; the id is the index
  history,             \* table device_history, committed rows in insertion order
  dblock,              \* the session holding the database write lock, or None
  wdevices,            \* uncommitted state of table devices in the lock holder's transaction
  whistory,            \* uncommitted state of table device_history, likewise
  pend,                \* per session: DeviceHistory rows added and not yet flushed
  poll,                \* Spec: the check_device_statuses job
  npolls,              \* Spec: polls started
  reader,              \* Spec: one get_scan_status call in progress
  alerts,              \* table device_alerts
  lastcall,            \* SpecAlerts: per device, the last check_device_status_change call
  req,                 \* SpecStore: the request handlers and reconciliation loops in flight
  ports,               \* table device_ports, committed rows
  rules,               \* table alert_rules
  sent,                \* SpecRules: the notifications attempted, in order
  call,                \* SpecRules: the helper call being made, and what it was given
  wol                  \* SpecWol: the wake calls made, their sockets and packets

vars == <<scan_in_progress, last_scan_time, last_scan_results, nsweeps, now, net, sw,
          task, trig, devices, history, dblock, wdevices, whistory, pend, poll, npolls,
          reader, alerts, lastcall, req, ports, rules, sent, call, wol>>

scanvars == <<scan_in_progress, last_scan_time, last_scan_results, nsweeps>>

storevars == <<devices, history, dblock, wdevices, whistory, pend>>

\* what an execution of scan_network by itself leaves alone
notsweep == <<now, net, task, trig, devices, history, dblock, wdevices, whistory, pend, poll,
              npolls, reader, alerts, lastcall, req, ports, rules, sent, call, wol>>

\* ------------------------------------------------ app/utils.py, app/scanner.py

\* parse_cidr: a range is given by the number of its usable host addresses, which are
\* then 1..n in network order; BadCidr stands for every string ip_network rejects
BadCidr == 0

\* ok = FALSE is the None returned for an unparsable range
parse_cidr(cidr) ==
  IF cidr = BadCidr THEN [ok |-> FALSE, hosts |-> <<>>]
  ELSE [ok |-> TRUE, hosts |-> [i \in 1..cidr |-> i]]

\* what the network answers during one sweep: the reachability probe, the neighbour
\* table, the name resolvers, and the local machine's own address and hardware address
Networks(n) ==
  [ping : [1..n -> BOOLEAN],
   arp : [1..n -> Macs \cup {None}],
   names : [1..n -> Names \cup {None}],
   local_ip : (1..n) \cup {n + 1, NoIp},
   local_mac : Macs \cup {None}]

ping_host(ip, nw) == nw.ping[ip]

get_mac_address_arp(ip, nw) == nw.arp[ip]

get_hostname(ip, nw) == nw.names[ip]

\* a scan_host that keeps a host that answers the probe although its hardware address
\* does not resolve
ScanHostKeepsUnresolved(ip, nw, t) ==
  IF ~ping_host(ip, nw) THEN <<>>
  ELSE <<[ip |-> ip, hostname |-> get_hostname(ip, nw), mac |-> get_mac_address_arp(ip, nw),
          last_seen |-> t, is_local_host |-> FALSE]>>

\* scan_host: <<>> (None) unless the host answers the probe and its hardware address
\* resolves, else the one entry. Swept entries have no is_local_host key; FALSE here.
scan_host(ip, nw, t) ==
  IF ~ping_host(ip, nw) THEN <<>>
  ELSE LET hostname == get_hostname(ip, nw)
           mac == get_mac_address_arp(ip, nw)
       IN IF mac = None THEN <<>>
          ELSE <<[ip |-> ip, hostname |-> hostname, mac |-> mac, last_seen |-> t,
                  is_local_host |-> FALSE]>>

\* lines 380-399 without the test of line 386
AddLocalHostUnchecked(devs, nw, t) ==
  IF nw.local_ip # NoIp /\ nw.local_mac # None
  THEN Append(devs, [ip |-> nw.local_ip, hostname |-> "localhost", mac |-> nw.local_mac,
                     last_seen |-> t, is_local_host |-> TRUE])
  ELSE devs

\* scan_network, lines 380-399: the local machine's entry, appended when both its
\* address and hardware address are known and no entry has its address
AddLocalHost(devs, nw, t) ==
  IF nw.local_ip # NoIp /\ nw.local_mac # None
     /\ ~\E i \in 1..Len(devs) : devs[i].ip = nw.local_ip
  THEN Append(devs, [ip |-> nw.local_ip, hostname |-> "localhost", mac |-> nw.local_mac,
                     last_seen |-> t, is_local_host |-> TRUE])
  ELSE devs

\* scan_network, lines 360-374: the entries collected from the probes, in the order
\* in which as_completed yields them
RECURSIVE ScanHosts(_, _, _)
ScanHosts(order, nw, t) ==
  IF order = <<>> THEN <<>>
  ELSE scan_host(Head(order), nw, t) \o ScanHosts(Tail(order), nw, t)

\* the list scan_network builds when nothing raises
ScanNetworkDevices(order, nw, t) == AddLocalHost(ScanHosts(order, nw, t), nw, t)

NoResults == [sweep |-> 0, devices |-> <<>>]

\* get_scan_status applied to one consistent reading of the three globals
ScanStatus(in_progress, time, results) ==
  [in_progress |-> in_progress, last_scan_time |-> time,
   last_scan_count |-> Len(results.devices),
   count_of |-> results.sweep]

\* a scan_network whose flag is reset at the end of the try block instead of in a
\* finally block: the flag is cleared on normal completion only
FlagClearedOnSuccessOnly(exit) == IF exit = "ok" THEN FALSE ELSE scan_in_progress

\* scan_network, lines 408-409: the value the finally block leaves in the flag, for a
\* sweep that leaves the try block with exit (ok, badcidr, exception)
FinallyFlag(exit) == FALSE

\* ------------------------------------------------------------- SpecSweep
\* One execution of scan_network(cidr, progress_callback), one step per line group.

SwIdle == [pc |-> "idle", cidr |-> 0, callback |-> FALSE, pending |-> {}, completed |-> 0,
           total |-> 0, devices |-> <<>>, progress |-> <<>>, exit |-> "none", id |-> 0]

SwInit ==
  /\ net \in Networks(SweepHosts)
  /\ \E c \in {BadCidr, SweepHosts}, cb \in BOOLEAN :
       sw = [SwIdle EXCEPT !.pc = "call", !.cidr = c, !.callback = cb]

\* lines 344-357: the flag is set, the range parsed; an unparsable range returns []
\* from inside the try block
SwEntry ==
  /\ sw.pc = "call"
  /\ scan_in_progress' = TRUE
  /\ nsweeps' = nsweeps + 1
  /\ LET info == parse_cidr(sw.cidr)
     IN sw' = IF ~info.ok
                THEN [sw EXCEPT !.pc = "finally", !.exit = "badcidr", !.id = nsweeps + 1]
                ELSE [sw EXCEPT !.pc = "probing", !.pending = SeqRange(info.hosts),
                                !.total = Len(info.hosts), !.id = nsweeps + 1]
  /\ UNCHANGED <<last_scan_time, last_scan_results>>
  /\ UNCHANGED notsweep

\* a sweep that reports progress only for a probe that found a device
CallProgressWhenFound(s, completed, result) ==
  IF s.callback /\ result # <<>> THEN Append(s.progress, <<completed, s.total>>)
  ELSE s.progress

\* scan_network, lines 376-378: the callback, when one was supplied, is called after
\* the try/except around future.result(), whatever the probe returned; the calls made
\* so far are recorded in progress
CallProgress(s, completed, result) ==
  IF s.callback THEN Append(s.progress, <<completed, s.total>>)
  ELSE s.progress

\* lines 364-378: as_completed yields the future of one host; raises says that
\* future.result() raises, which lines 373-374 catch
SwComplete(ip, raises) ==
  /\ sw.pc = "probing"
  /\ ip \in sw.pending
  /\ LET r == IF raises THEN <<>> ELSE scan_host(ip, net, now)
         done == sw.completed + 1
     IN sw' = [sw EXCEPT !.pending = @ \ {ip},
                         !.completed = done,
                         !.devices = @ \o r,
                         !.progress = CallProgress(sw, done, r)]
  /\ UNCHANGED scanvars
  /\ UNCHANGED notsweep

\* an exception inside the try block: the executor cannot start a thread, or the
\* progress callback raises; line 406 catches it
SwRaise ==
  /\ sw.pc = "probing"
  /\ sw' = [sw EXCEPT !.pc = "finally", !.exit = "exception"]
  /\ UNCHANGED scanvars
  /\ UNCHANGED notsweep

\* lines 380-399
SwLocal ==
  /\ sw.pc = "probing"
  /\ sw.pending = {}
  /\ sw' = [sw EXCEPT !.pc = "store_results", !.devices = AddLocalHost(@, net, now)]
  /\ UNCHANGED scanvars
  /\ UNCHANGED notsweep

\* line 403
SwStoreResults ==
  /\ sw.pc = "store_results"
  /\ last_scan_results' = [sweep |-> sw.id, devices |-> sw.devices]
  /\ sw' = [sw EXCEPT !.pc = "store_time"]
  /\ UNCHANGED <<scan_in_progress, last_scan_time, nsweeps>>
  /\ UNCHANGED notsweep

\* line 404
SwStoreTime ==
  /\ sw.pc = "store_time"
  /\ last_scan_time' = sw.id
  /\ sw' = [sw EXCEPT !.pc = "finally", !.exit = "ok"]
  /\ UNCHANGED <<scan_in_progress, last_scan_results, nsweeps>>
  /\ UNCHANGED notsweep

\* lines 408-411
SwFinally ==
  /\ sw.pc = "finally"
  /\ scan_in_progress' = FinallyFlag(sw.exit)
  /\ sw' = [sw EXCEPT !.pc = "returned"]
  /\ UNCHANGED <<last_scan_time, last_scan_results, nsweeps>>
  /\ UNCHANGED notsweep


NextSweep ==
  \/ SwEntry
  \/ \E ip \in 1..SweepHosts, raises \in BOOLEAN : SwComplete(ip, raises)
  \/ SwRaise
  \/ SwLocal
  \/ SwStoreResults
  \/ SwStoreTime
  \/ SwFinally

\* ------------------------------------------------------------- the store
\* SQLite through one SQLAlchemy session per thread. A session keeps added and
\* modified objects pending until it flushes (before a query when anything is pending,
\* on flush() and on commit); the first flush takes the database write lock, which is
\* held until the commit; other sessions read the committed rows meanwhile.

ManualThreads == {"manual1", "manual2"}

SchedJob == "sched"

Sweepers == ManualThreads \cup {SchedJob}

PollJob == "poll"

Sessions == Sweepers \cup {PollJob}

EmptyPend == [upd |-> <<>>, hist |-> <<>>]

\* a Device.status with <= in line 54
DeviceStatusInclusive(last_seen, t) ==
  IF last_seen = Never THEN "unknown"
  ELSE IF t - last_seen <= LivenessWindow THEN "online" ELSE "offline"

\* Device.status (a property computed from last_seen and the clock)
DeviceStatus(last_seen, t) ==
  IF last_seen = Never THEN "unknown"
  ELSE IF t - last_seen < LivenessWindow THEN "online" ELSE "offline"

\* the row with the columns of ch assigned
ApplyChange(row, ch) == [f \in DOMAIN row |-> IF f \in DOMAIN ch THEN ch[f] ELSE row[f]]

RECURSIVE ApplyAll(_, _)
ApplyAll(rows, upd) ==
  IF upd = <<>> THEN rows
  ELSE ApplyAll([rows EXCEPT ![Head(upd).id] = ApplyChange(@, Head(upd).ch)], Tail(upd))

\* an update_device_from_scan that assigns the name of the result also when the
\* sweep resolved none
ScanChangesEraseName(device, e) ==
  LET fs == {f \in {"ip", "hostname", "last_seen"} :
               \/ f = "ip" /\ e.ip # NoIp /\ e.ip # device.ip
               \/ f = "hostname" /\ e.hostname # device.hostname
               \/ f = "last_seen" /\ e.last_seen # Never}
  IN [f \in fs |-> e[f]]

\* update_device_from_scan: the columns it assigns
ScanChanges(device, e) ==
  LET fs == {f \in {"ip", "hostname", "last_seen"} :
               \/ f = "ip" /\ e.ip # NoIp /\ e.ip # device.ip
               \/ f = "hostname" /\ e.hostname # None /\ e.hostname # device.hostname
               \/ f = "last_seen" /\ e.last_seen # Never}
  IN [f \in fs |-> e[f]]

\* Device(ip=..., hostname=..., mac=..., last_seen=..., is_manual=False)
NewDevice(e) ==
  [mac |-> e.mac, ip |-> e.ip, hostname |-> e.hostname, last_seen |-> e.last_seen,
   is_manual |-> FALSE]

\* Device.query.filter_by(mac=mac).first(): the id, or 0 for None
FindByMac(rows, mac) ==
  LET ids == {i \in 1..Len(rows) : rows[i].mac = mac}
  IN IF ids = {} THEN 0 ELSE CHOOSE i \in ids : \A j \in ids : i <= j

\* DeviceHistory.query.filter_by(device_id=id).order_by(timestamp.desc()).first():
\* the status of the newest row of the device, or None
LatestStatus(h, id) ==
  LET is == {i \in 1..Len(h) : h[i].device_id = id}
  IN IF is = {} THEN None ELSE h[CHOOSE i \in is : \A j \in is : j <= i].status

\* the rule of scheduler.py lines 43 and 104, api.py lines 374 and 385
AddIfChanged(h, id, status) ==
  IF LatestStatus(h, id) # status THEN Append(h, [device_id |-> id, status |-> status]) ELSE h

Base(p) ==
  IF dblock = p THEN [d |-> wdevices, h |-> whistory] ELSE [d |-> devices, h |-> history]

\* the rows the session sees once its pending objects are flushed
Flushed(p) == [d |-> ApplyAll(Base(p).d, pend[p].upd), h |-> Base(p).h \o pend[p].hist]

\* the step flushes: it needs the write lock, and its writes go to the transaction
WriteLocked(p, st) ==
  /\ dblock \in {None, p}
  /\ dblock' = p
  /\ wdevices' = st.d
  /\ whistory' = st.h
  /\ pend' = [pend EXCEPT ![p] = EmptyPend]
  /\ UNCHANGED <<devices, history>>

\* the step only changes objects of the session
KeepPending(p, pn) ==
  /\ pend' = [pend EXCEPT ![p] = pn]
  /\ UNCHANGED <<devices, history, dblock, wdevices, whistory>>

\* db.session.commit(); with nothing pending and no transaction open it writes nothing
CommitSession(p) ==
  IF dblock # p /\ pend[p] = EmptyPend
  THEN UNCHANGED storevars
  ELSE /\ dblock \in {None, p}
       /\ devices' = Flushed(p).d
       /\ history' = Flushed(p).h
       /\ dblock' = None
       /\ wdevices' = <<>>
       /\ whistory' = <<>>
       /\ pend' = [pend EXCEPT ![p] = EmptyPend]

\* scheduled_network_scan, lines 32-60, for one entry of the sweep result. The row
\* is modified (last_seen at least), so the history query flushes.
SchedReconcileEntry(st, e) ==
  LET id == FindByMac(st.d, e.mac)
  IN IF id # 0
     THEN [d |-> [st.d EXCEPT ![id] = ApplyChange(@, ScanChanges(@, e))],
           h |-> AddIfChanged(st.h, id, "online")]
     ELSE [d |-> Append(st.d, NewDevice(e)),
           h |-> Append(st.h, [device_id |-> Len(st.d) + 1, status |-> "online"])]

\* trigger_scan.scan_task, lines 270-294, for one entry: as above, but for a known
\* device the decision reads Device.status after the update, not the history
ManualAddsHistory(device, e, t) ==
  DeviceStatus(ApplyChange(device, ScanChanges(device, e)).last_seen, t) # "online"

ManualReconcileEntry(st, e, t) ==
  LET id == FindByMac(st.d, e.mac)
  IN IF id # 0
     THEN [d |-> [st.d EXCEPT ![id] = ApplyChange(@, ScanChanges(@, e))],
           h |-> IF ManualAddsHistory(st.d[id], e, t)
                 THEN Append(st.h, [device_id |-> id, status |-> "online"]) ELSE st.h]
     ELSE [d |-> Append(st.d, NewDevice(e)),
           h |-> Append(st.h, [device_id |-> Len(st.d) + 1, status |-> "online"])]



\* ------------------------------------------------------------------ Spec
\* The resolver outcomes drawn in Spec: name resolution fails and the local address
\* is unknown (get_local_ip returns None without a route); SpecSweep draws them all.

SpecNetworks ==
  {nw \in Networks(NetHosts) :
     nw.local_ip = NoIp /\ nw.local_mac = None /\ \A i \in 1..NetHosts : nw.names[i] = None}

TaskIdle == [pc |-> "idle", found |-> <<>>, exit |-> "none", id |-> 0, idx |-> 0]

PollIdle == [pc |-> "idle", todo |-> {}, online |-> <<>>]

ReaderIdle == [pc |-> "idle", in_progress |-> FALSE, time |-> 0, count |-> 0, count_of |-> 0]

\* net and sw are used by SpecSweep alone
NoNetwork ==
  [ping |-> <<>>, arp |-> <<>>, names |-> <<>>, local_ip |-> NoIp, local_mac |-> None]

InitShared ==
  /\ scan_in_progress = FALSE
  /\ last_scan_time = 0
  /\ last_scan_results = NoResults
  /\ nsweeps = 0
  /\ now = 0
  /\ task = [t \in Sweepers |-> TaskIdle]
  /\ trig = [count |-> 0, code |-> 0]
  /\ history = <<>>
  /\ dblock = None
  /\ wdevices = <<>>
  /\ whistory = <<>>
  /\ pend = [p \in Sessions |-> EmptyPend]
  /\ poll = PollIdle
  /\ npolls = 0
  /\ reader = ReaderIdle
  /\ alerts = <<>>

\* no request of the other specifications is in flight, their tables are empty
InitExtra ==
  /\ req = <<>>
  /\ ports = {}
  /\ rules = <<>>
  /\ sent = <<>>
  /\ call = <<>>
  /\ wol = <<>>

othervars == <<net, sw, alerts, lastcall, req, ports, rules, sent, call, wol>>

\* a new database: no device yet
Init ==
  /\ InitShared
  /\ InitExtra
  /\ net = NoNetwork
  /\ sw = SwIdle
  /\ devices = <<>>
  /\ lastcall = <<>>

\* a trigger_scan that does not look at the flag
FlagNotRead == FALSE

\* trigger_scan, lines 250-252: get_scan_status()['in_progress'] as the request reads it
get_in_progress == scan_in_progress

\* trigger_scan, lines 250-312: the request reads the flag; when it is set the answer
\* is 409, otherwise a thread running scan_task is started and the answer is 200
TriggerScan ==
  /\ trig.count < MaxTriggers
  /\ IF get_in_progress
     THEN /\ trig' = [count |-> trig.count + 1, code |-> 409]
          /\ UNCHANGED <<task, nsweeps>>
     ELSE /\ nsweeps < MaxSweeps
          /\ \E t \in ManualThreads :
               /\ task[t].pc = "idle"
               /\ task' = [task EXCEPT ![t] = [TaskIdle EXCEPT !.pc = "spawned",
                                                               !.id = nsweeps + 1]]
          /\ nsweeps' = nsweeps + 1
          /\ trig' = [count |-> trig.count + 1, code |-> 200]
  /\ UNCHANGED <<scan_in_progress, last_scan_time, last_scan_results, now, poll, npolls,
                 reader>>
  /\ UNCHANGED storevars
  /\ UNCHANGED othervars

\* scan_task reaches scan_network, line 344
ManualEntry(t) ==
  /\ t \in ManualThreads
  /\ task[t].pc = "spawned"
  /\ scan_in_progress' = TRUE
  /\ task' = [task EXCEPT ![t].pc = "scanning"]
  /\ UNCHANGED <<last_scan_time, last_scan_results, nsweeps, now, trig, poll, npolls,
                 reader>>
  /\ UNCHANGED storevars
  /\ UNCHANGED othervars

\* the interval trigger fires scheduled_network_scan (one instance at a time, the
\* scheduler's default), which calls scan_network without reading the flag
SchedStart ==
  /\ task[SchedJob].pc = "idle"
  /\ nsweeps < MaxSweeps
  /\ nsweeps' = nsweeps + 1
  /\ scan_in_progress' = TRUE
  /\ task' = [task EXCEPT ![SchedJob] = [TaskIdle EXCEPT !.pc = "scanning",
                                                         !.id = nsweeps + 1]]
  /\ UNCHANGED <<last_scan_time, last_scan_results, now, trig, poll, npolls, reader>>
  /\ UNCHANGED storevars
  /\ UNCHANGED othervars

\* scan_network, lines 347-401, up to the point where the list is complete
Scan(t) ==
  /\ task[t].pc = "scanning"
  /\ \E cidr \in {BadCidr, NetHosts}, nw \in SpecNetworks, order \in Orders(1..NetHosts) :
       IF ~parse_cidr(cidr).ok
       THEN task' = [task EXCEPT ![t].pc = "finally", ![t].exit = "badcidr"]
       ELSE task' = [task EXCEPT ![t].pc = "store_results",
                                 ![t].found = ScanNetworkDevices(order, nw, now)]
  /\ UNCHANGED <<scan_in_progress, last_scan_time, last_scan_results, nsweeps, now, trig,
                 poll, npolls, reader>>
  /\ UNCHANGED storevars
  /\ UNCHANGED othervars

\* a scan_network that swallows the exception inside the try block and goes on to
\* record the partial list
RaiseThenStore(t) ==
  /\ task[t].pc = "scanning"
  /\ \E nw \in SpecNetworks, order \in Orders(1..NetHosts) :
       \E k \in 0..Len(ScanHosts(order, nw, now)) :
         task' = [task EXCEPT ![t].pc = "store_results", ![t].exit = "exception",
                              ![t].found = SubSeq(ScanHosts(order, nw, now), 1, k)]
  /\ UNCHANGED <<scan_in_progress, last_scan_time, last_scan_results, nsweeps, now, trig,
                 poll, npolls, reader>>
  /\ UNCHANGED storevars
  /\ UNCHANGED othervars

\* an exception inside the try block of scan_network, after some probes completed
ScanRaise(t) ==
  /\ task[t].pc = "scanning"
  /\ \E nw \in SpecNetworks, order \in Orders(1..NetHosts) :
       \E k \in 0..Len(ScanHosts(order, nw, now)) :
         task' = [task EXCEPT ![t].pc = "finally", ![t].exit = "exception",
                              ![t].found = SubSeq(ScanHosts(order, nw, now), 1, k)]
  /\ UNCHANGED <<scan_in_progress, last_scan_time, last_scan_results, nsweeps, now, trig,
                 poll, npolls, reader>>
  /\ UNCHANGED storevars
  /\ UNCHANGED othervars

\* scan_network, line 403
StoreResults(t) ==
  /\ task[t].pc = "store_results"
  /\ last_scan_results' = [sweep |-> task[t].id, devices |-> task[t].found]
  /\ task' = [task EXCEPT ![t].pc = "store_time"]
  /\ UNCHANGED <<scan_in_progress, last_scan_time, nsweeps, now, trig, poll, npolls,
                 reader>>
  /\ UNCHANGED storevars
  /\ UNCHANGED othervars

\* scan_network, line 404
StoreTime(t) ==
  /\ task[t].pc = "store_time"
  /\ last_scan_time' = task[t].id
  /\ task' = [task EXCEPT ![t].pc = "finally", ![t].exit = "ok"]
  /\ UNCHANGED <<scan_in_progress, last_scan_results, nsweeps, now, trig, poll, npolls,
                 reader>>
  /\ UNCHANGED storevars
  /\ UNCHANGED othervars

\* scan_network, lines 408-411: the flag is cleared and the list returned to the caller
Finally(t) ==
  /\ task[t].pc = "finally"
  /\ scan_in_progress' = FinallyFlag(task[t].exit)
  /\ task' = [task EXCEPT ![t].pc = "reconcile", ![t].idx = 1]
  /\ UNCHANGED <<last_scan_time, last_scan_results, nsweeps, now, trig, poll, npolls,
                 reader>>
  /\ UNCHANGED storevars
  /\ UNCHANGED othervars


\* the caller's loop over devices_found, one entry per step: scheduler.py lines 31-60
\* for the job, api.py lines 269-294 for a manual thread. The first query flushes when
\* the session has pending objects; a known device of a manual sweep is only modified
\* in the session (nothing is queried after the update), a new device is flushed.
Reconcile(t) ==
  /\ task[t].pc = "reconcile"
  /\ task[t].idx <= Len(task[t].found)
  /\ LET e == task[t].found[task[t].idx]
         st == Flushed(t)
         id == FindByMac(st.d, e.mac)
     IN IF t = SchedJob
        THEN WriteLocked(t, SchedReconcileEntry(st, e))
        ELSE IF dblock = t \/ pend[t] # EmptyPend \/ id = 0
             THEN WriteLocked(t, ManualReconcileEntry(st, e, now))
             ELSE KeepPending(t,
                    [upd |-> <<[id |-> id, ch |-> ScanChanges(st.d[id], e)]>>,
                     hist |-> IF ManualAddsHistory(st.d[id], e, now)
                              THEN <<[device_id |-> id, status |-> "online"]>> ELSE <<>>])
  /\ task' = [task EXCEPT ![t].idx = @ + 1]
  /\ UNCHANGED <<scan_in_progress, last_scan_time, last_scan_results, nsweeps, now, trig,
                 poll, npolls, reader>>
  /\ UNCHANGED othervars

\* db.session.commit() after the loop (scheduler.py line 62, api.py line 296)
Commit(t) ==
  /\ task[t].pc = "reconcile"
  /\ task[t].idx > Len(task[t].found)
  /\ CommitSession(t)
  /\ task' = [task EXCEPT ![t].pc = "idle", ![t].found = <<>>, ![t].idx = 0]
  /\ UNCHANGED <<scan_in_progress, last_scan_time, last_scan_results, nsweeps, now, trig,
                 poll, npolls, reader>>
  /\ UNCHANGED othervars

\* check_device_statuses, lines 79-85: the devices are read and probed
\* (check_device_status reports a device without address offline, without a probe)
PollStart ==
  /\ poll.pc = "idle"
  /\ npolls < MaxPolls
  /\ npolls' = npolls + 1
  /\ IF devices = <<>>
     THEN poll' = poll
     ELSE \E online \in [1..Len(devices) -> BOOLEAN] :
            /\ \A i \in 1..Len(devices) : devices[i].ip = NoIp => ~online[i]
            /\ poll' = [pc |-> "update", todo |-> 1..Len(devices), online |-> online]
  /\ UNCHANGED <<scan_in_progress, last_scan_time, last_scan_results, nsweeps, now, task,
                 trig, reader>>
  /\ UNCHANGED storevars
  /\ UNCHANGED othervars

\* check_device_statuses, lines 88-106, for one device: last_seen is modified when the
\* device answered, then the history query flushes whatever is pending
PollOne(id) ==
  /\ poll.pc = "update"
  /\ id \in poll.todo
  /\ LET status == IF poll.online[id] THEN "online" ELSE "offline"
         seen == IF poll.online[id]
                 THEN <<[id |-> id, ch |-> [last_seen |-> now]]>> ELSE <<>>
         st == Flushed(PollJob)
     IN IF dblock = PollJob \/ pend[PollJob] # EmptyPend \/ poll.online[id]
        THEN WriteLocked(PollJob, [d |-> ApplyAll(st.d, seen),
                                   h |-> AddIfChanged(st.h, id, status)])
        ELSE KeepPending(PollJob,
               [upd |-> <<>>,
                hist |-> IF LatestStatus(st.h, id) # status
                         THEN <<[device_id |-> id, status |-> status]>> ELSE <<>>])
  /\ poll' = [poll EXCEPT !.todo = @ \ {id}]
  /\ UNCHANGED <<scan_in_progress, last_scan_time, last_scan_results, nsweeps, now, task,
                 trig, npolls, reader>>
  /\ UNCHANGED othervars

\* check_device_statuses, line 108
PollCommit ==
  /\ poll.pc = "update"
  /\ poll.todo = {}
  /\ CommitSession(PollJob)
  /\ poll' = PollIdle
  /\ UNCHANGED <<scan_in_progress, last_scan_time, last_scan_results, nsweeps, now, task,
                 trig, npolls, reader>>
  /\ UNCHANGED othervars

\* check_device (api.py lines 359-394): one request in a session of its own
CheckDevice(id) ==
  /\ id \in 1..Len(devices)
  /\ npolls < MaxPolls
  /\ npolls' = npolls + 1
  /\ dblock = None
  /\ \E online \in BOOLEAN :
       /\ devices[id].ip = NoIp => ~online
       /\ IF online
          THEN /\ devices' = [devices EXCEPT ![id].last_seen = now]
               /\ history' = AddIfChanged(history, id, "online")
          ELSE /\ devices' = devices
               /\ history' = AddIfChanged(history, id, "offline")
  /\ UNCHANGED <<dblock, wdevices, whistory, pend>>
  /\ UNCHANGED <<scan_in_progress, last_scan_time, last_scan_results, nsweeps, now, task,
                 trig, poll, reader>>
  /\ UNCHANGED othervars

\* get_scan_status (scanner.py lines 96-100) called by scan_status: the three globals
\* are read one after the other, line 97
ReadFlag ==
  /\ reader.pc \in {"idle", "done"}
  /\ reader' = [ReaderIdle EXCEPT !.pc = "read_time", !.in_progress = scan_in_progress]
  /\ UNCHANGED <<scan_in_progress, last_scan_time, last_scan_results, nsweeps, now, task,
                 trig, poll, npolls>>
  /\ UNCHANGED storevars
  /\ UNCHANGED othervars

\* line 98
ReadTime ==
  /\ reader.pc = "read_time"
  /\ reader' = [reader EXCEPT !.pc = "read_results", !.time = last_scan_time]
  /\ UNCHANGED <<scan_in_progress, last_scan_time, last_scan_results, nsweeps, now, task,
                 trig, poll, npolls>>
  /\ UNCHANGED storevars
  /\ UNCHANGED othervars

\* line 99; the dictionary is returned
ReadResults ==
  /\ reader.pc = "read_results"
  /\ LET r == ScanStatus(reader.in_progress, reader.time, last_scan_results)
     IN reader' = [reader EXCEPT !.pc = "done", !.count = r.last_scan_count,
                                 !.count_of = r.count_of]
  /\ UNCHANGED <<scan_in_progress, last_scan_time, last_scan_results, nsweeps, now, task,
                 trig, poll, npolls>>
  /\ UNCHANGED storevars
  /\ UNCHANGED othervars

\* a liveness window passes
Tick ==
  /\ now < MaxTicks * LivenessWindow
  /\ now' = now + LivenessWindow
  /\ UNCHANGED <<scan_in_progress, last_scan_time, last_scan_results, nsweeps, task, trig,
                 poll, npolls, reader>>
  /\ UNCHANGED storevars
  /\ UNCHANGED othervars

\* the sweep requests, the sweep threads and the reconciliation of their results
SweepNext ==
  \/ TriggerScan
  \/ SchedStart
  \/ \E t \in ManualThreads : ManualEntry(t)
  \/ \E t \in Sweepers : Scan(t)
  \/ \E t \in Sweepers : ScanRaise(t)
  \/ \E t \in Sweepers : StoreResults(t)
  \/ \E t \in Sweepers : StoreTime(t)
  \/ \E t \in Sweepers : Finally(t)
  \/ \E t \in Sweepers : Reconcile(t)
  \/ \E t \in Sweepers : Commit(t)

PollNext ==
  \/ PollStart
  \/ \E id \in 1..Len(devices) : PollOne(id)
  \/ PollCommit
  \/ \E id \in 1..Len(devices) : CheckDevice(id)

ReaderNext ==
  \/ ReadFlag
  \/ ReadTime
  \/ ReadResults

Next ==
  \/ SweepNext
  \/ PollNext
  \/ Tick

Spec == Init /\ [][Next]_vars

\* The sweeps with a scan-status reader beside them. The reader changes nothing but
\* its own locals, and the polls and the clock change nothing a sweep or a reader reads.
NextStatus ==
  \/ SweepNext
  \/ ReaderNext

SpecStatus == Init /\ [][NextStatus]_vars

InitSweep ==
  /\ InitShared
  /\ InitExtra
  /\ SwInit
  /\ devices = <<>>
  /\ lastcall = <<>>

SpecSweep == InitSweep /\ [][NextSweep]_vars

\* ------------------------------------------------------------ SpecAlerts
\* The derived-event helpers of app/alerts.py. api.py imports them and nothing in
\* the repository calls them; here an outside caller does, for the devices of a
\* store left by earlier sweeps and manual additions, between single-device checks
\* and the passing of time.

\* calls of the helpers in one behaviour of SpecAlerts
MaxCalls == 3

\* create_alert: the alert is stored, then process_alert_rules marks it notified when
\* its device exists
create_alert(als, exists, device_id, alert_type, severity, meta) ==
  Append(als, [device_id |-> device_id, alert_type |-> alert_type, severity |-> severity,
               is_notified |-> exists, meta |-> meta])

NoCall == [n |-> 0, status |-> None, created |-> FALSE, seen |-> Never, at |-> 0]

\* the stores the helpers are called on: a manually added device never seen or seen,
\* a discovered device
KnownDevices ==
  {[mac |-> "m1", ip |-> 1, hostname |-> None, last_seen |-> ls, is_manual |-> m] :
     ls \in {Never, 0}, m \in BOOLEAN} \ 
  {[mac |-> "m1", ip |-> 1, hostname |-> None, last_seen |-> Never, is_manual |-> FALSE]}

InitAlerts ==
  /\ InitShared
  /\ InitExtra
  /\ net = NoNetwork
  /\ sw = SwIdle
  /\ \E d1 \in KnownDevices, d2 \in KnownDevices :
       devices = <<d1, [d2 EXCEPT !.mac = "m2", !.ip = 2]>>
  /\ lastcall = [id \in 1..2 |-> NoCall]

\* check_device_status_change(device, new_status): the derived status is compared
\* with the reported one; an alert is created when they differ
StatusChangeCall(id, new_status) ==
  /\ id \in 1..Len(devices)
  /\ lastcall[1].n + lastcall[2].n < MaxCalls
  /\ LET old_status == DeviceStatus(devices[id].last_seen, now)
         created == old_status # new_status
     IN /\ alerts' = IF created
                     THEN create_alert(alerts, TRUE, id, "status_change",
                                       IF new_status = "offline" THEN "warning" ELSE "info",
                                       [old_status |-> old_status, new_status |-> new_status])
                     ELSE alerts
        /\ lastcall' = [lastcall EXCEPT ![id] =
                          [n |-> @.n + 1, status |-> new_status, created |-> created,
                           seen |-> devices[id].last_seen, at |-> now]]
  /\ UNCHANGED <<scan_in_progress, last_scan_time, last_scan_results, nsweeps, now, task,
                 trig, poll, npolls, reader, net, sw, req, ports, rules, sent, call, wol>>
  /\ UNCHANGED storevars

NextAlerts ==
  \/ \E id \in 1..Len(devices), s \in {"online", "offline"} : StatusChangeCall(id, s)
  \/ \E id \in 1..Len(devices) : CheckDevice(id)
  \/ Tick

SpecAlerts == InitAlerts /\ [][NextAlerts]_vars


\* -------------------------------------------------------------- SpecStore
\* The writers of table devices side by side: add_device and update_device requests,
\* and the reconciliation loops of the scheduler job and of a manual sweep thread,
\* each query and each write a step of its own. Hardware addresses are strings here,
\* as sequences of characters.

\* entries of a sweep result handed to a reconciliation loop in SpecStore
MaxFound == 2

HexDigits ==
  {"0", "1", "2", "3", "4", "5", "6", "7", "8", "9",
   "a", "b", "c", "d", "e", "f", "A", "B", "C", "D", "E", "F"}

IsHex(c) == c \in HexDigits

\* str.upper() on a hexadecimal digit
upper(c) ==
  CASE c = "a" -> "A" [] c = "b" -> "B" [] c = "c" -> "C"
    [] c = "d" -> "D" [] c = "e" -> "E" [] c = "f" -> "F" [] OTHER -> c

\* Python's None where a hardware address is expected; the empty string is <<>> too
\* (no caller tells them apart: both are falsy)
NoMac == <<>>

\* a normalize_mac that keeps the case of the digits
NormalizeKeepCase(mac) ==
  LET mac_clean == SelectSeq(mac, IsHex)
  IN IF Len(mac_clean) # 12 THEN NoMac
     ELSE [i \in 1..17 |->
             IF i % 3 = 0 THEN ":"
             ELSE mac_clean[2 * ((i - 1) \div 3) + ((i - 1) % 3) + 1]]

\* normalize_mac: every character that is not a hexadecimal digit is dropped; twelve
\* digits are left or the result is None; the digits are upper-cased and joined in
\* pairs by colons
normalize_mac(mac) ==
  LET mac_clean == SelectSeq(mac, IsHex)
  IN IF Len(mac_clean) # 12 THEN NoMac
     ELSE [i \in 1..17 |->
             IF i % 3 = 0 THEN ":"
             ELSE upper(mac_clean[2 * ((i - 1) \div 3) + ((i - 1) % 3) + 1])]

\* validate_mac: normalize_mac(mac) is not None; called with None, re.sub raises
\* TypeError
validate_mac(mac) ==
  IF mac = NoMac THEN [raises |-> TRUE, value |-> FALSE]
  ELSE [raises |-> FALSE, value |-> normalize_mac(mac) # NoMac]

\* stands for every string validate_ip rejects
BadIp == 999

\* validate_ip: four decimal octets of at most 255
validate_ip(ip) == ip # BadIp

\* the hardware addresses typed into add_device: twelve digits without separators,
\* the same address in upper case with dashes, another address, eleven digits, nothing
RawMacs ==
  {[i \in 1..12 |-> "a"],
   [i \in 1..17 |-> IF i % 3 = 0 THEN "-" ELSE "A"],
   [i \in 1..12 |-> "1"],
   [i \in 1..11 |-> "a"],
   <<>>}

\* the hardware addresses a sweep reports (get_mac_address_arp normalizes them)
StoreMacs == {normalize_mac([i \in 1..12 |-> "a"]), normalize_mac([i \in 1..12 |-> "1"])}

\* a table devices without the unique index on mac
NoUniqueIndex(rows, mac) == TRUE

\* Device.mac, unique=True: the index refuses a second row with the address
UniqueMac(rows, mac) == \A i \in 1..Len(rows) : rows[i].mac # mac

\* two add_device requests and one update_device request, each in a session of its own
AddRequests == {"add1", "add2"}

UpdateRequest == "upd"

\* the reconciliation loops: the scheduler job and one manual sweep thread
StoreLoops == {SchedJob, "manual1"}

ReqIdle ==
  [pc |-> "idle", mac |-> NoMac, ip |-> NoIp, found |-> <<>>, idx |-> 0, hit |-> 0,
   code |-> 0, raised |-> None, runs |-> 0, snap |-> [d |-> <<>>, h |-> <<>>]]

\* the entries a sweep can report in SpecStore
StoreEntries ==
  [ip : {1}, hostname : {None}, mac : StoreMacs, last_seen : {0}, is_local_host : {FALSE}]

\* the sweep results handed to a loop: at most MaxFound entries
FoundLists == UNION {[1..n -> StoreEntries] : n \in 0..MaxFound}

notstore == <<scan_in_progress, last_scan_time, last_scan_results, nsweeps, now, net, sw,
              task, trig, poll, npolls, reader, alerts, lastcall, ports, rules, sent, call,
              wol>>

\* add_device, lines 81-100: the address is normalized and validated (a None from
\* normalize_mac makes validate_mac raise: the request ends 500), the committed rows
\* are searched for it, the IP address is validated
AddCheck(s, raw, ip) ==
  /\ req[s].pc = "idle"
  /\ LET mac == normalize_mac(raw)
         valid == validate_mac(mac)
     IN req' = [req EXCEPT ![s] =
          IF raw = NoMac THEN [@ EXCEPT !.pc = "done", !.code = 400]
          ELSE IF valid.raises THEN [@ EXCEPT !.pc = "done", !.code = 500,
                                              !.raised = "TypeError"]
          ELSE IF ~valid.value THEN [@ EXCEPT !.pc = "done", !.code = 400]
          ELSE IF FindByMac(devices, mac) # 0 THEN [@ EXCEPT !.pc = "done", !.code = 400]
          ELSE IF ip # NoIp /\ ~validate_ip(ip) THEN [@ EXCEPT !.pc = "done", !.code = 400]
          ELSE [@ EXCEPT !.pc = "insert", !.mac = mac, !.ip = ip]]
  /\ UNCHANGED storevars
  /\ UNCHANGED notstore

\* add_device, lines 103-121: the row is inserted and committed, once the write lock
\* is free; the unique index raises IntegrityError (the request ends 500, nothing is
\* written)
AddInsert(s) ==
  /\ req[s].pc = "insert"
  /\ dblock = None
  /\ IF UniqueMac(devices, req[s].mac)
     THEN /\ devices' = Append(devices, [mac |-> req[s].mac, ip |-> req[s].ip,
                                         hostname |-> None, last_seen |-> Never,
                                         is_manual |-> TRUE])
          /\ req' = [req EXCEPT ![s].pc = "done", ![s].code = 201]
     ELSE /\ devices' = devices
          /\ req' = [req EXCEPT ![s].pc = "done", ![s].code = 500,
                                ![s].raised = "IntegrityError"]
  /\ UNCHANGED <<history, dblock, wdevices, whistory, pend>>
  /\ UNCHANGED notstore

\* the request bodies of update_device
UpdateBodies ==
  {[ip |-> 2], [ip |-> BadIp], [hostname |-> "h1", mac |-> CHOOSE m \in StoreMacs : TRUE],
   [mac |-> NoMac, ip |-> NoIp]}

\* a update_device that assigns every key of the body
UpdateAnyField(data) == data

\* update_device, lines 132-151: the columns assigned from the body
UpdateChanges(data) ==
  [f \in (DOMAIN data) \cap {"nickname", "group", "icon", "is_favorite", "ip", "hostname"}
     |-> data[f]]

\* update_device: the row is read, the allowed columns assigned and committed; an
\* invalid IP address ends the request 400 before the commit
UpdateDevice(id, data) ==
  /\ req[UpdateRequest].pc = "idle"
  /\ id \in 1..Len(devices)
  /\ dblock = None
  /\ IF "ip" \in DOMAIN data /\ data.ip # NoIp /\ ~validate_ip(data.ip)
     THEN /\ devices' = devices
          /\ req' = [req EXCEPT ![UpdateRequest].pc = "done", ![UpdateRequest].code = 400]
     ELSE /\ devices' = [devices EXCEPT ![id] = ApplyChange(@, UpdateChanges(data))]
          /\ req' = [req EXCEPT ![UpdateRequest].pc = "done", ![UpdateRequest].code = 200,
                                ![UpdateRequest].hit = id]
  /\ UNCHANGED <<history, dblock, wdevices, whistory, pend>>
  /\ UNCHANGED notstore

\* the session is rolled back when its handler ends by exception
Rollback(p) ==
  /\ dblock' = IF dblock = p THEN None ELSE dblock
  /\ wdevices' = IF dblock = p THEN <<>> ELSE wdevices
  /\ whistory' = IF dblock = p THEN <<>> ELSE whistory
  /\ pend' = [pend EXCEPT ![p] = EmptyPend]
  /\ UNCHANGED <<devices, history>>

\* scan_network has returned found to the loop of t (scheduler.py line 28, api.py
\* line 266)
RStart(t, found) ==
  /\ req[t].pc = "idle"
  /\ req' = [req EXCEPT ![t] = [@ EXCEPT !.pc = "query", !.found = found, !.idx = 1,
                                         !.runs = 1]]
  /\ UNCHANGED storevars
  /\ UNCHANGED notstore

\* existing = Device.query.filter_by(mac=...).first() (scheduler.py line 32, api.py
\* line 270): the session flushes what is pending, then reads
RQuery(t) ==
  /\ req[t].pc = "query"
  /\ req[t].idx <= Len(req[t].found)
  /\ IF pend[t] # EmptyPend THEN WriteLocked(t, Flushed(t)) ELSE UNCHANGED storevars
  /\ req' = [req EXCEPT ![t].pc = "apply",
                        ![t].hit = FindByMac(Flushed(t).d, req[t].found[req[t].idx].mac)]
  /\ UNCHANGED notstore

\* the branch taken on existing (scheduler.py lines 34-60, api.py lines 272-294). A
\* new device is inserted and flushed: the unique index raises IntegrityError when
\* the address was committed by another session since the query, the handler's except
\* clause ends the loop and the session is rolled back.
RApply(t) ==
  /\ req[t].pc = "apply"
  /\ LET e == req[t].found[req[t].idx]
         hit == req[t].hit
         st == Flushed(t)
     IN IF hit = 0
        THEN /\ dblock \in {None, t}
             /\ IF UniqueMac(st.d, e.mac)
                THEN /\ WriteLocked(t, IF t = SchedJob THEN SchedReconcileEntry(st, e)
                                       ELSE ManualReconcileEntry(st, e, now))
                     /\ req' = [req EXCEPT ![t].pc = "query", ![t].idx = @ + 1]
                ELSE /\ Rollback(t)
                     /\ req' = [req EXCEPT ![t].pc = "done", ![t].raised = "IntegrityError"]
        ELSE /\ IF t = SchedJob
                THEN WriteLocked(t, SchedReconcileEntry(st, e))
                ELSE IF dblock = t
                     THEN WriteLocked(t, ManualReconcileEntry(st, e, now))
                     ELSE KeepPending(t,
                            [upd |-> <<[id |-> hit, ch |-> ScanChanges(st.d[hit], e)]>>,
                             hist |-> IF ManualAddsHistory(st.d[hit], e, now)
                                      THEN <<[device_id |-> hit, status |-> "online"]>>
                                      ELSE <<>>])
             /\ req' = [req EXCEPT ![t].pc = "query", ![t].idx = @ + 1]
  /\ UNCHANGED notstore

\* db.session.commit() after the loop
RCommit(t) ==
  /\ req[t].pc = "query"
  /\ req[t].idx > Len(req[t].found)
  /\ CommitSession(t)
  /\ req' = [req EXCEPT ![t].pc = "done"]
  /\ UNCHANGED notstore

LoopNext(t) ==
  \/ RQuery(t)
  \/ RApply(t)
  \/ RCommit(t)

NextStore ==
  \/ \E s \in AddRequests, raw \in RawMacs, ip \in {NoIp, BadIp} : AddCheck(s, raw, ip)
  \/ \E s \in AddRequests : AddInsert(s)
  \/ \E id \in 1..Len(devices), data \in UpdateBodies : UpdateDevice(id, data)
  \/ \E t \in StoreLoops, found \in FoundLists : RStart(t, found)
  \/ \E t \in StoreLoops : LoopNext(t)

InitStore ==
  /\ InitShared
  /\ net = NoNetwork
  /\ sw = SwIdle
  /\ devices = <<>>
  /\ lastcall = <<>>
  /\ req = [s \in AddRequests \cup {UpdateRequest} \cup StoreLoops |-> ReqIdle]
  /\ ports = {}
  /\ rules = <<>>
  /\ sent = <<>>
  /\ call = <<>>
  /\ wol = <<>>

SpecStore == InitStore /\ [][NextStore]_vars

\* ------------------------------------------------------------- SpecUpsert
\* One reconciliation loop by itself, applying the sweep result it was handed and
\* then the same result once more, on a store left by earlier additions, sweeps and
\* polls; time may pass at any point.

UpsertDevice(last_seen, is_manual) ==
  [mac |-> normalize_mac([i \in 1..12 |-> "a"]), ip |-> 1, hostname |-> None,
   last_seen |-> last_seen, is_manual |-> is_manual]

\* the stores the loop starts on: empty; a device added by hand and never seen; a
\* discovered device; a discovered device a poll has since found offline
UpsertStores ==
  {[d |-> <<>>, h |-> <<>>],
   [d |-> <<UpsertDevice(Never, TRUE)>>, h |-> <<>>],
   [d |-> <<UpsertDevice(0, FALSE)>>, h |-> <<[device_id |-> 1, status |-> "online"]>>],
   [d |-> <<UpsertDevice(0, FALSE)>>,
    h |-> <<[device_id |-> 1, status |-> "online"], [device_id |-> 1, status |-> "offline"]>>]}

\* the loop of t runs again on the list it was handed before; the store as the first
\* run left it is kept for comparison
RAgain(t) ==
  /\ req[t].pc = "done"
  /\ req[t].runs = 1
  /\ req[t].raised = None
  /\ req' = [req EXCEPT ![t] = [@ EXCEPT !.pc = "query", !.idx = 1, !.runs = 2,
                                         !.snap = [d |-> devices, h |-> history]]]
  /\ UNCHANGED storevars
  /\ UNCHANGED notstore

NextUpsert ==
  \/ \E t \in StoreLoops, found \in FoundLists :
       /\ \A u \in StoreLoops \ {t} : req[u].pc = "idle"
       /\ RStart(t, found)
  \/ \E t \in StoreLoops : LoopNext(t)
  \/ \E t \in StoreLoops : RAgain(t)
  \/ Tick

InitUpsert ==
  /\ scan_in_progress = FALSE
  /\ last_scan_time = 0
  /\ last_scan_results = NoResults
  /\ nsweeps = 0
  /\ now = 0
  /\ task = [t \in Sweepers |-> TaskIdle]
  /\ trig = [count |-> 0, code |-> 0]
  /\ dblock = None
  /\ wdevices = <<>>
  /\ whistory = <<>>
  /\ pend = [p \in Sessions |-> EmptyPend]
  /\ poll = PollIdle
  /\ npolls = 0
  /\ reader = ReaderIdle
  /\ alerts = <<>>
  /\ net = NoNetwork
  /\ sw = SwIdle
  /\ lastcall = <<>>
  /\ \E st \in UpsertStores : devices = st.d /\ history = st.h
  /\ req = [s \in AddRequests \cup {UpdateRequest} \cup StoreLoops |-> ReqIdle]
  /\ ports = {}
  /\ rules = <<>>
  /\ sent = <<>>
  /\ call = <<>>
  /\ wol = <<>>

SpecUpsert == InitUpsert /\ [][NextUpsert]_vars

\* -------------------------------------------------------------- SpecPorts
\* Port probe runs (app/port_scanner.py) and the handler that stores their findings,
\* scan_device_ports_endpoint.

COMMON_PORTS ==
  (20 :> "FTP-Data") @@ (21 :> "FTP") @@ (22 :> "SSH") @@ (23 :> "Telnet") @@
  (25 :> "SMTP") @@ (53 :> "DNS") @@ (80 :> "HTTP") @@ (110 :> "POP3") @@
  (143 :> "IMAP") @@ (443 :> "HTTPS") @@ (445 :> "SMB") @@ (548 :> "AFP") @@
  (631 :> "IPP/CUPS") @@ (993 :> "IMAPS") @@ (995 :> "POP3S") @@ (1433 :> "MSSQL") @@
  (1883 :> "MQTT") @@ (3306 :> "MySQL") @@ (3389 :> "RDP") @@ (5000 :> "UPnP/Flask") @@
  (5432 :> "PostgreSQL") @@ (5900 :> "VNC") @@ (6379 :> "Redis") @@ (8080 :> "HTTP-Alt") @@
  (8443 :> "HTTPS-Alt") @@ (8883 :> "MQTT-SSL") @@ (9000 :> "SonarQube") @@
  (27017 :> "MongoDB")

\* quick_scan_common_ports: top_ports
top_ports ==
  <<21, 22, 23, 25, 80, 110, 143, 443, 445, 3306, 3389, 5432, 5900, 8080, 8443, 27017>>

\* the elements of a set of numbers in increasing order
RECURSIVE Sorted(_)
Sorted(S) ==
  IF S = {} THEN <<>>
  ELSE LET m == CHOOSE x \in S : \A y \in S : x <= y
       IN <<m>> \o Sorted(S \ {m})

\* scan_port: the port's entry when the connection succeeds, None (<<>>) otherwise;
\* open is the set of ports of the host that accept a connection
scan_port(port, open) ==
  IF port \in open
  THEN <<[port |-> port, protocol |-> "tcp", state |-> "open",
          service |-> IF port \in DOMAIN COMMON_PORTS THEN COMMON_PORTS[port]
                      ELSE "Unknown"]>>
  ELSE <<>>

\* scan_device_ports: the entries of the ports of port_list that are open, sorted by
\* port number
scan_device_ports(port_list, open) ==
  LET hits == Sorted({port \in SeqRange(port_list) : scan_port(port, open) # <<>>})
  IN [i \in 1..Len(hits) |-> scan_port(hits[i], open)[1]]

quick_scan_common_ports(open) == scan_device_ports(top_ports, open)

full_port_scan(open) == scan_device_ports(Sorted(DOMAIN COMMON_PORTS), open)

\* the sets of open ports a host can have in SpecPorts: 631 is probed by the full
\* scan only, 9100 by neither
OpenSets == SUBSET {22, 80, 631, 9100}

PortRequests == {"ports1", "ports2"}

PortReqIdle == [pc |-> "idle", device_id |-> 0, scan_type |-> None, found |-> <<>>, code |-> 0]

\* DevicePort(device_id=..., port=..., protocol=..., service=..., state=...)
PortRow(device_id, info) ==
  [device_id |-> device_id, port |-> info.port, protocol |-> info.protocol,
   service |-> info.service, state |-> info.state]

\* a handler that adds the findings of the run to the rows of the device
PortsMerged(rows, device_id, open_ports) ==
  rows \cup {PortRow(device_id, open_ports[i]) : i \in 1..Len(open_ports)}

\* scan_device_ports_endpoint, lines 537-550: the rows of the device are deleted and
\* one row is added per finding
PortsReplaced(rows, device_id, open_ports) ==
  {p \in rows : p.device_id # device_id}
    \cup {PortRow(device_id, open_ports[i]) : i \in 1..Len(open_ports)}

notports == <<scan_in_progress, last_scan_time, last_scan_results, nsweeps, now, net, sw,
              task, trig, poll, npolls, reader, alerts, lastcall, rules, sent, call, wol>>

\* scan_device_ports_endpoint, lines 521-534: a device without address is refused
\* (400); otherwise the probe run: the full scan for scan_type 'full', the quick one
\* for anything else
PortProbe(r, id, scan_type, open) ==
  /\ req[r].pc = "idle"
  /\ id \in 1..Len(devices)
  /\ req' = [req EXCEPT ![r] =
       IF devices[id].ip = NoIp
       THEN [@ EXCEPT !.pc = "done", !.device_id = id, !.scan_type = scan_type, !.code = 400]
       ELSE [@ EXCEPT !.pc = "store", !.device_id = id, !.scan_type = scan_type,
                      !.found = IF scan_type = "full" THEN full_port_scan(open)
                                ELSE quick_scan_common_ports(open)]]
  /\ UNCHANGED <<ports>>
  /\ UNCHANGED storevars
  /\ UNCHANGED notports

\* the probe run raises (the executor cannot start a thread): line 562 answers 500
PortProbeRaise(r, id) ==
  /\ req[r].pc = "idle"
  /\ id \in 1..Len(devices)
  /\ devices[id].ip # NoIp
  /\ req' = [req EXCEPT ![r] = [@ EXCEPT !.pc = "done", !.device_id = id, !.code = 500]]
  /\ UNCHANGED <<ports>>
  /\ UNCHANGED storevars
  /\ UNCHANGED notports

\* lines 537-560: the DELETE takes the write lock, the rows are added and committed
PortStore(r) ==
  /\ req[r].pc = "store"
  /\ dblock = None
  /\ ports' = PortsReplaced(ports, req[r].device_id, req[r].found)
  /\ req' = [req EXCEPT ![r] = [@ EXCEPT !.pc = "done", !.code = 200]]
  /\ UNCHANGED storevars
  /\ UNCHANGED notports

NextPorts ==
  \/ \E r \in PortRequests, id \in 1..Len(devices), scan_type \in {"quick", "full", "fast"},
        open \in OpenSets : PortProbe(r, id, scan_type, open)
  \/ \E r \in PortRequests, id \in 1..Len(devices) : PortProbeRaise(r, id)
  \/ \E r \in PortRequests : PortStore(r)

\* two devices with an address and one added by hand without; the rows of earlier runs
InitPorts ==
  /\ InitShared
  /\ net = NoNetwork
  /\ sw = SwIdle
  /\ lastcall = <<>>
  /\ devices = <<[UpsertDevice(0, FALSE) EXCEPT !.ip = 1],
                 [UpsertDevice(0, FALSE) EXCEPT !.ip = 2,
                                                !.mac = normalize_mac([i \in 1..12 |-> "1"])],
                 [UpsertDevice(Never, TRUE) EXCEPT !.ip = NoIp,
                                                   !.mac = normalize_mac([i \in 1..12 |-> "2"])]>>
  /\ req = [r \in PortRequests |-> PortReqIdle]
  /\ \E o1 \in {{}, {22, 631}}, o2 \in {{}, {22}} :
       ports = PortsReplaced(PortsReplaced({}, 1, full_port_scan(o1)), 2, full_port_scan(o2))
  /\ rules = <<>>
  /\ sent = <<>>
  /\ call = <<>>
  /\ wol = <<>>

SpecPorts == InitPorts /\ [][NextPorts]_vars

\* -------------------------------------------------------------- SpecRules
\* create_alert and process_alert_rules (app/alerts.py) over a table of alert rules:
\* rules are added, then alerts are raised for the devices of the store, the mail
\* server and the webhook endpoint answering or failing.

\* rows of table alert_rules in SpecRules
MaxRules == 2
\* create_alert calls in one behaviour of SpecRules
MaxAlerts == 1

AlertTypes == {"status_change", "new_device", "port_change"}

\* AlertRule rows: the four event types of the rule form and one the mapping does
\* not know; no filter, the two keywords, a group name; mail only, webhook only
\* without URL, both channels
RuleSpace ==
  {[event_type |-> et, enabled |-> en, device_filter |-> df, notify_email |-> ch[1],
    notify_webhook |-> ch[2], webhook_url |-> ch[3]] :
     et \in {"device_offline", "device_online", "new_device", "port_change", "status_change"},
     en \in BOOLEAN,
     df \in {None, "all", "favorites", "lab"},
     ch \in {<<TRUE, FALSE, None>>, <<FALSE, TRUE, None>>, <<TRUE, TRUE, "url">>}}

\* what happens to one mail: sent, skipped because the mail settings are incomplete,
\* or an exception from smtplib
EmailOutcomes == {"sent", "unconfigured", "error"}

\* what happens to one POST: answered (any status), or an exception from requests
WebhookOutcomes == {"answered", "error"}

\* a matches_alert_type that compares the rule's event type with the alert type
MatchesSameName(rule_event_type, alert_type) == rule_event_type = alert_type

\* matches_alert_type: mapping.get(rule_event_type) == alert_type
matches_alert_type(rule_event_type, alert_type) ==
  LET mapping == [device_offline |-> "status_change", device_online |-> "status_change",
                  new_device |-> "new_device", port_change |-> "port_change"]
  IN rule_event_type \in DOMAIN mapping /\ mapping[rule_event_type] = alert_type

\* matches_device_filter
matches_device_filter(device_filter, device) ==
  IF device_filter \in {None, ""} \/ device_filter = "all" THEN TRUE
  ELSE IF device_filter = "favorites" THEN device.is_favorite
  ELSE device.group = device_filter

NoSend == [log |-> <<>>, raised |-> FALSE]

\* a send_email_notification without its try block
SendEmailUnguarded(i, outcome) ==
  [log |-> <<[rule |-> i, channel |-> "email", outcome |-> outcome]>>,
   raised |-> outcome = "error"]

\* send_email_notification: whatever happens inside is caught and printed
send_email_notification(i, outcome) ==
  [log |-> <<[rule |-> i, channel |-> "email", outcome |-> outcome]>>, raised |-> FALSE]

\* send_webhook_notification: likewise
send_webhook_notification(i, outcome) ==
  [log |-> <<[rule |-> i, channel |-> "webhook", outcome |-> outcome]>>, raised |-> FALSE]

\* process_alert_rules, lines 57-71, from rule i on: acc holds the sends made, the
\* rules that reached line 66, and whether an exception left the loop
RECURSIVE DispatchFrom(_, _, _, _, _, _)
DispatchFrom(rs, i, alert_type, device, out, acc) ==
  IF i > Len(rs) THEN acc
  ELSE IF \/ ~rs[i].enabled
          \/ ~matches_alert_type(rs[i].event_type, alert_type)
          \/ ~matches_device_filter(rs[i].device_filter, device)
       THEN DispatchFrom(rs, i + 1, alert_type, device, out, acc)
       ELSE LET e == IF rs[i].notify_email THEN send_email_notification(i, out[i].email)
                     ELSE NoSend
                w == IF e.raised THEN NoSend
                     ELSE IF rs[i].notify_webhook /\ rs[i].webhook_url \notin {None, ""}
                          THEN send_webhook_notification(i, out[i].webhook)
                          ELSE NoSend
                acc2 == [log |-> acc.log \o e.log \o w.log,
                         matched |-> acc.matched \cup {i},
                         raised |-> e.raised \/ w.raised]
            IN IF acc2.raised THEN acc2
               ELSE DispatchFrom(rs, i + 1, alert_type, device, out, acc2)

\* process_alert_rules: nothing is done for an alert whose device is not in the table
process_alert_rules(rs, alert_type, devs, device_id, out) ==
  IF device_id \notin 1..Len(devs)
  THEN [log |-> <<>>, matched |-> {}, raised |-> FALSE]
  ELSE DispatchFrom(rs, 1, alert_type, devs[device_id], out,
                    [log |-> <<>>, matched |-> {}, raised |-> FALSE])

NoRaise == [n |-> 0, fn |-> None, device_id |-> 0, alert_type |-> None, matched |-> {},
            raised |-> FALSE, new_ports |-> {}, old_ports |-> {}]

notrules == <<scan_in_progress, last_scan_time, last_scan_results, nsweeps, now, net, sw,
              task, trig, poll, npolls, reader, lastcall, req, ports, wol>>

\* a row is added to table alert_rules (the rule form)
AddRule(rule) ==
  /\ Len(rules) < MaxRules
  /\ rules' = Append(rules, rule)
  /\ UNCHANGED <<alerts, sent, call>>
  /\ UNCHANGED storevars
  /\ UNCHANGED notrules

\* create_alert(device_id, alert_type, message, severity): the alert is committed,
\* then the rules are processed; is_notified is set when the loop was left normally
RaiseAlert(device_id, alert_type, severity, out) ==
  /\ Len(alerts) < MaxAlerts
  /\ LET r == process_alert_rules(rules, alert_type, devices, device_id, out)
     IN /\ alerts' = create_alert(alerts, device_id \in 1..Len(devices) /\ ~r.raised,
                                  device_id, alert_type, severity, <<>>)
        /\ sent' = sent \o r.log
        /\ call' = [NoRaise EXCEPT !.n = call.n + 1, !.fn = "create_alert",
                                   !.device_id = device_id, !.alert_type = alert_type,
                                   !.matched = r.matched, !.raised = r.raised]
  /\ UNCHANGED rules
  /\ UNCHANGED storevars
  /\ UNCHANGED notrules

\* what the mail server and the webhook endpoint do for each rule during one call;
\* a channel the rule does not use has no outcome to choose
ChannelOutcomes(rs) ==
  {out \in [1..Len(rs) -> [email : EmailOutcomes, webhook : WebhookOutcomes]] :
     \A i \in 1..Len(rs) :
       /\ ~rs[i].notify_email => out[i].email = "sent"
       /\ ~(rs[i].notify_webhook /\ rs[i].webhook_url \notin {None, ""})
            => out[i].webhook = "answered"}

NextRules ==
  \/ \E rule \in RuleSpace : AddRule(rule)
  \/ \E device_id \in 1..(Len(devices) + 1), alert_type \in AlertTypes,
        out \in ChannelOutcomes(rules) :
       RaiseAlert(device_id, alert_type, "info", out)

\* a device row with hardware address c repeated; InitRules has a favourite device
\* of group lab, a device without group, a device of a group named favorites
RuleDevice(c, is_favorite, group) ==
  [mac |-> normalize_mac([i \in 1..12 |-> c]), ip |-> 1, hostname |-> None,
   last_seen |-> 0, is_manual |-> FALSE, is_favorite |-> is_favorite, group |-> group]

InitRules ==
  /\ InitShared
  /\ net = NoNetwork
  /\ sw = SwIdle
  /\ lastcall = <<>>
  /\ devices = <<RuleDevice("a", TRUE, "lab"), RuleDevice("b", FALSE, None),
                 RuleDevice("c", FALSE, "favorites")>>
  /\ req = <<>>
  /\ ports = {}
  /\ rules = <<>>
  /\ sent = <<>>
  /\ call = NoRaise
  /\ wol = <<>>

SpecRules == InitRules /\ [][NextRules]_vars

\* ------------------------------------------------------------ SpecHelpers
\* check_new_device and check_port_changes (app/alerts.py). Nothing in the repository
\* calls them; here an outside caller does, for a manually added and a discovered
\* device, with the findings of two port scans, over a rule table with one rule
\* for each of the two alert types.

\* calls of the two helpers in one behaviour of SpecHelpers
MaxHelperCalls == 2

\* the ports probed for the findings handed to check_port_changes
HelperPorts == <<22, 23, 3389>>

\* what the vendor lookup of device.vendor answers
Vendors == {"Unknown", "Acme"}

\* the list in line 348
SensitivePorts == {23, 21, 3389}

\* a check_new_device without lines 308-310
NewDeviceUnguarded(device, id, vendor) ==
  <<[device_id |-> id, alert_type |-> "new_device", severity |-> "info",
     meta |-> [vendor |-> vendor]]>>

\* check_new_device: the create_alert calls it makes, in order
check_new_device(device, id, vendor) ==
  IF device.is_manual THEN <<>>
  ELSE <<[device_id |-> id, alert_type |-> "new_device", severity |-> "info",
          meta |-> [vendor |-> vendor]]>>

\* a check_port_changes that looks for a sensitive port among all the open ports
PortChangesAnyOpenSensitive(id, new_ports, old_ports) ==
  LET new_port_numbers == {new_ports[k].port : k \in 1..Len(new_ports)}
      old_port_numbers == {old_ports[k].port : k \in 1..Len(old_ports)}
      newly_opened == new_port_numbers \ old_port_numbers
      newly_closed == old_port_numbers \ new_port_numbers
      opened == IF newly_opened # {}
                THEN <<[device_id |-> id, alert_type |-> "port_change",
                        severity |-> IF \E p \in new_port_numbers : p \in SensitivePorts
                                     THEN "warning" ELSE "info",
                        meta |-> [opened_ports |-> newly_opened]]>>
                ELSE <<>>
      closed == IF newly_closed # {}
                THEN <<[device_id |-> id, alert_type |-> "port_change", severity |-> "info",
                        meta |-> [closed_ports |-> newly_closed]]>>
                ELSE <<>>
  IN opened \o closed

\* check_port_changes: the create_alert calls it makes, in order
check_port_changes(id, new_ports, old_ports) ==
  LET new_port_numbers == {new_ports[k].port : k \in 1..Len(new_ports)}
      old_port_numbers == {old_ports[k].port : k \in 1..Len(old_ports)}
      newly_opened == new_port_numbers \ old_port_numbers
      newly_closed == old_port_numbers \ new_port_numbers
      opened == IF newly_opened # {}
                THEN <<[device_id |-> id, alert_type |-> "port_change",
                        severity |-> IF \E p \in newly_opened : p \in SensitivePorts
                                     THEN "warning" ELSE "info",
                        meta |-> [opened_ports |-> newly_opened]]>>
                ELSE <<>>
      closed == IF newly_closed # {}
                THEN <<[device_id |-> id, alert_type |-> "port_change", severity |-> "info",
                        meta |-> [closed_ports |-> newly_closed]]>>
                ELSE <<>>
  IN opened \o closed

\* the create_alert calls of one helper call, from the k-th on: acc holds the alert
\* table, the sends made and whether an exception ended the helper
RECURSIVE CreateAlerts(_, _, _, _)
CreateAlerts(calls, k, outs, acc) ==
  IF k > Len(calls) \/ acc.raised THEN acc
  ELSE LET c == calls[k]
           r == process_alert_rules(rules, c.alert_type, devices, c.device_id, outs[k])
       IN CreateAlerts(calls, k + 1, outs,
                       [alerts |-> create_alert(acc.alerts, ~r.raised, c.device_id,
                                                c.alert_type, c.severity, c.meta),
                        sent |-> acc.sent \o r.log,
                        raised |-> r.raised])

\* check_new_device(device)
NewDeviceCall(id, vendor, out) ==
  /\ call.n < MaxHelperCalls
  /\ LET res == CreateAlerts(check_new_device(devices[id], id, vendor), 1, <<out>>,
                             [alerts |-> alerts, sent |-> sent, raised |-> FALSE])
     IN /\ alerts' = res.alerts
        /\ sent' = res.sent
        /\ call' = [NoRaise EXCEPT !.n = call.n + 1, !.fn = "check_new_device",
                                   !.device_id = id, !.raised = res.raised]
  /\ UNCHANGED rules
  /\ UNCHANGED storevars
  /\ UNCHANGED notrules

\* check_port_changes(device, new_ports, old_ports)
PortChangeCall(id, new_ports, old_ports, out1, out2) ==
  /\ call.n < MaxHelperCalls
  /\ LET res == CreateAlerts(check_port_changes(id, new_ports, old_ports), 1,
                             <<out1, out2>>,
                             [alerts |-> alerts, sent |-> sent, raised |-> FALSE])
     IN /\ alerts' = res.alerts
        /\ sent' = res.sent
        /\ call' = [NoRaise EXCEPT !.n = call.n + 1, !.fn = "check_port_changes",
                                   !.device_id = id, !.raised = res.raised,
                                   !.new_ports = new_ports, !.old_ports = old_ports]
  /\ UNCHANGED rules
  /\ UNCHANGED storevars
  /\ UNCHANGED notrules

NextHelpers ==
  \/ \E id \in 1..Len(devices), vendor \in Vendors, out \in ChannelOutcomes(rules) :
       NewDeviceCall(id, vendor, out)
  \/ \E id \in 1..Len(devices), new_open \in SUBSET SeqRange(HelperPorts),
        old_open \in SUBSET SeqRange(HelperPorts),
        out1 \in ChannelOutcomes(rules), out2 \in ChannelOutcomes(rules) :
       PortChangeCall(id, scan_device_ports(HelperPorts, new_open),
                      scan_device_ports(HelperPorts, old_open), out1, out2)

\* a manually added device and a discovered one; a mail rule for new devices and a
\* webhook rule for port changes
InitHelpers ==
  /\ InitShared
  /\ net = NoNetwork
  /\ sw = SwIdle
  /\ lastcall = <<>>
  /\ devices = <<[RuleDevice("a", TRUE, "lab") EXCEPT !.is_manual = TRUE],
                 RuleDevice("b", FALSE, None)>>
  /\ req = <<>>
  /\ ports = {}
  /\ rules = <<[event_type |-> "new_device", enabled |-> TRUE, device_filter |-> "all",
                notify_email |-> TRUE, notify_webhook |-> FALSE, webhook_url |-> None],
               [event_type |-> "port_change", enabled |-> TRUE, device_filter |-> None,
                notify_email |-> FALSE, notify_webhook |-> TRUE, webhook_url |-> "url"]>>
  /\ sent = <<>>
  /\ call = NoRaise
  /\ wol = <<>>

SpecHelpers == InitHelpers /\ [][NextHelpers]_vars


\* ---------------------------------------------------------------- SpecWol
\* app/wol.py: send_wol_packet and send_bulk_wol called with hardware addresses as
\* their callers may hold them, the operating system refusing one of the socket
\* operations or none.

\* calls of the two functions in one behaviour of SpecWol
MaxWakes == 1
\* addresses in one send_bulk_wol call
MaxBulk == 3

\* the socket operation of a send_wol_packet call that raises OSError
WolFailures == {"none", "socket", "setsockopt", "primary", "secondary", "close"}

\* the addresses handed to the functions: two spellings of one address, another
\* address, eleven digits
WakeMacs ==
  {[i \in 1..12 |-> "a"],
   [i \in 1..17 |-> IF i % 3 = 0 THEN "-" ELSE "A"],
   [i \in 1..12 |-> "1"],
   [i \in 1..11 |-> "a"]}

\* the value of a hexadecimal digit
HexValue(c) ==
  CASE c = "0" -> 0 [] c = "1" -> 1 [] c = "2" -> 2 [] c = "3" -> 3 [] c = "4" -> 4
    [] c = "5" -> 5 [] c = "6" -> 6 [] c = "7" -> 7 [] c = "8" -> 8 [] c = "9" -> 9
    [] c \in {"a", "A"} -> 10 [] c \in {"b", "B"} -> 11 [] c \in {"c", "C"} -> 12
    [] c \in {"d", "D"} -> 13 [] c \in {"e", "E"} -> 14 [] c \in {"f", "F"} -> 15

\* bytes.fromhex: one byte, a number in 0..255, for every two digits
fromhex(digits) ==
  [i \in 1..(Len(digits) \div 2) |->
     16 * HexValue(digits[2 * i - 1]) + HexValue(digits[2 * i])]

\* a magic packet with fifteen repetitions of the address
MagicPacketShort(mac_address) ==
  LET normalized_mac == normalize_mac(mac_address)
  IN IF normalized_mac = NoMac
     THEN [raises |-> TRUE, packet |-> <<>>]
     ELSE LET mac_bytes == fromhex(SelectSeq(normalized_mac, LAMBDA c : c # ":"))
          IN [raises |-> FALSE,
              packet |-> [i \in 1..6 |-> 255] \o
                         [i \in 1..(6 * 15) |-> mac_bytes[((i - 1) % 6) + 1]]]

\* create_magic_packet: ValueError for an address that does not normalize; else six
\* bytes FF followed by sixteen times the six bytes of the address
create_magic_packet(mac_address) ==
  LET normalized_mac == normalize_mac(mac_address)
  IN IF normalized_mac = NoMac
     THEN [raises |-> TRUE, packet |-> <<>>]
     ELSE LET mac_bytes == fromhex(SelectSeq(normalized_mac, LAMBDA c : c # ":"))
          IN [raises |-> FALSE,
              packet |-> [i \in 1..6 |-> 255] \o
                         [i \in 1..(6 * 16) |-> mac_bytes[((i - 1) % 6) + 1]]]

\* one socket operation: port is 0 for the operations that are not sends
SockOp(op, port, ok) == [op |-> op, port |-> port, ok |-> ok]

WolSent == [success |-> TRUE, message |-> "WOL packet sent"]

WolError == [success |-> FALSE, message |-> "Error sending WOL packet"]

\* send_wol_packet: lines 43-56 run up to the operation that raises; every exception
\* is caught in line 63 and turned into a result with success False
send_wol_packet(mac_address, port, fail) ==
  LET p == create_magic_packet(mac_address)
      second == IF port # 7 THEN <<SockOp("sendto", 7, fail # "secondary")>> ELSE <<>>
  IN IF p.raises THEN [result |-> WolError, ops |-> <<>>, packet |-> <<>>]
     ELSE IF fail = "socket"
     THEN [result |-> WolError, ops |-> <<SockOp("socket", 0, FALSE)>>, packet |-> p.packet]
     ELSE IF fail = "setsockopt"
     THEN [result |-> WolError, packet |-> p.packet,
           ops |-> <<SockOp("socket", 0, TRUE), SockOp("setsockopt", 0, FALSE)>>]
     ELSE IF fail = "primary"
     THEN [result |-> WolError, packet |-> p.packet,
           ops |-> <<SockOp("socket", 0, TRUE), SockOp("setsockopt", 0, TRUE),
                     SockOp("sendto", port, FALSE)>>]
     ELSE IF fail = "secondary" /\ port # 7
     THEN [result |-> WolError, packet |-> p.packet,
           ops |-> <<SockOp("socket", 0, TRUE), SockOp("setsockopt", 0, TRUE),
                     SockOp("sendto", port, TRUE), SockOp("sendto", 7, FALSE)>>]
     ELSE [result |-> IF fail = "close" THEN WolError ELSE WolSent,
           packet |-> p.packet,
           ops |-> <<SockOp("socket", 0, TRUE), SockOp("setsockopt", 0, TRUE),
                     SockOp("sendto", port, TRUE)>> \o second \o
                   <<SockOp("close", 0, fail # "close")>>]

\* the loop of send_bulk_wol from the k-th address on: acc holds the results
\* dictionary, keyed by the address as given, and the calls made
RECURSIVE BulkFrom(_, _, _, _)
BulkFrom(mac_addresses, k, fails, acc) ==
  IF k > Len(mac_addresses) THEN acc
  ELSE LET w == send_wol_packet(mac_addresses[k], 9, fails[k])
       IN BulkFrom(mac_addresses, k + 1, fails,
                   [results |-> (mac_addresses[k] :> w.result) @@ acc.results,
                    calls |-> Append(acc.calls, w)])

\* a send_bulk_wol that leaves its loop at the first address that fails
BulkUntilFailure(mac_addresses, fails) ==
  LET bad == {k \in 1..Len(mac_addresses) :
                ~send_wol_packet(mac_addresses[k], 9, fails[k]).result.success}
      last == IF bad = {} THEN Len(mac_addresses)
              ELSE CHOOSE k \in bad : \A j \in bad : k <= j
      done == BulkFrom(SubSeq(mac_addresses, 1, last), 1, fails,
                       [results |-> <<>>, calls |-> <<>>])
  IN [results |-> done.results,
      total |-> Len(mac_addresses),
      success_count |-> Cardinality({m \in DOMAIN done.results : done.results[m].success}),
      calls |-> done.calls]

\* send_bulk_wol: every address is tried; the count is taken over the dictionary
send_bulk_wol(mac_addresses, fails) ==
  LET done == BulkFrom(mac_addresses, 1, fails, [results |-> <<>>, calls |-> <<>>])
  IN [results |-> done.results,
      total |-> Len(mac_addresses),
      success_count |-> Cardinality({m \in DOMAIN done.results : done.results[m].success}),
      calls |-> done.calls]

NoWake == [n |-> 0, fn |-> None, macs |-> <<>>, fails |-> <<>>, results |-> <<>>,
           total |-> 0, success_count |-> 0, calls |-> <<>>, raised |-> FALSE]

notwol == <<scan_in_progress, last_scan_time, last_scan_results, nsweeps, now, net, sw,
            task, trig, poll, npolls, reader, alerts, lastcall, req, ports, rules, sent,
            call>>

\* send_wol_packet(mac_address) with the default port
WakeCall(mac_address, fail) ==
  /\ wol.n < MaxWakes
  /\ LET w == send_wol_packet(mac_address, 9, fail)
     IN wol' = [NoWake EXCEPT !.n = wol.n + 1, !.fn = "send_wol_packet",
                              !.macs = <<mac_address>>, !.fails = <<fail>>,
                              !.results = (mac_address :> w.result),
                              !.calls = <<w>>]
  /\ UNCHANGED storevars
  /\ UNCHANGED notwol

\* send_bulk_wol(mac_addresses)
BulkWakeCall(mac_addresses, fails) ==
  /\ wol.n < MaxWakes
  /\ LET b == send_bulk_wol(mac_addresses, fails)
     IN wol' = [NoWake EXCEPT !.n = wol.n + 1, !.fn = "send_bulk_wol",
                              !.macs = mac_addresses, !.fails = fails,
                              !.results = b.results, !.total = b.total,
                              !.success_count = b.success_count, !.calls = b.calls]
  /\ UNCHANGED storevars
  /\ UNCHANGED notwol

NextWol ==
  \/ \E mac_address \in WakeMacs \cup {NoMac}, fail \in WolFailures :
       WakeCall(mac_address, fail)
  \/ \E n \in 0..MaxBulk :
       \E mac_addresses \in [1..n -> WakeMacs], fails \in [1..n -> WolFailures] :
         BulkWakeCall(mac_addresses, fails)

InitWol ==
  /\ InitShared
  /\ net = NoNetwork
  /\ sw = SwIdle
  /\ lastcall = <<>>
  /\ devices = <<>>
  /\ req = <<>>
  /\ ports = {}
  /\ rules = <<>>
  /\ sent = <<>>
  /\ call = <<>>
  /\ wol = NoWake

SpecWol == InitWol /\ [][NextWol]_vars


\* ---------------------------------------------------------------- SpecMac
\* normalize_mac (app/utils.py) and create_magic_packet (app/wol.py) applied to
\* hardware addresses in the spellings users and tools write them in.

\* the digits of the addresses: twelve in lower case, in mixed case, in upper case,
\* twelve with repeated digits, eleven, thirteen, none
DigitStrings ==
  {<<"0", "1", "2", "3", "4", "5", "6", "7", "8", "9", "a", "b">>,
   <<"A", "b", "C", "d", "E", "f", "0", "0", "F", "f", "1", "e">>,
   <<"0", "1", "2", "3", "4", "5", "6", "7", "8", "9", "A", "B">>,
   <<"d", "e", "a", "d", "b", "e", "e", "f", "0", "0", "4", "2">>,
   <<"0", "1", "2", "3", "4", "5", "6", "7", "8", "9", "a">>,
   <<"A", "b", "C", "d", "E", "f", "0", "0", "F", "f", "1", "e", "7">>,
   <<>>}

\* what is written between groups of digits
Separators == {":", "-", ".", " ", "g"}

\* digits in groups of two, of four, or in one group
Groupings == {2, 4, 13}

\* the digits written in groups of group digits with sep between the groups
Spell(digits, sep, group) ==
  [i \in 1..(Len(digits) + (IF digits = <<>> THEN 0 ELSE (Len(digits) - 1) \div group)) |->
     IF i % (group + 1) = 0 THEN sep ELSE digits[i - (i \div (group + 1))]]

NoMacCall == [fn |-> None, mac |-> <<>>, digits |-> <<>>, value |-> <<>>, raises |-> FALSE]

notmac == <<scan_in_progress, last_scan_time, last_scan_results, nsweeps, now, net, sw,
            task, trig, poll, npolls, reader, alerts, lastcall, req, ports, rules, sent,
            call>>

\* normalize_mac(mac)
NormalizeCall(digits, mac) ==
  /\ wol' = [fn |-> "normalize_mac", mac |-> mac, digits |-> digits,
             value |-> normalize_mac(mac), raises |-> FALSE]
  /\ UNCHANGED storevars
  /\ UNCHANGED notmac

\* create_magic_packet(mac_address)
MagicPacketCall(digits, mac_address) ==
  /\ LET p == create_magic_packet(mac_address)
     IN wol' = [fn |-> "create_magic_packet", mac |-> mac_address, digits |-> digits,
                value |-> p.packet, raises |-> p.raises]
  /\ UNCHANGED storevars
  /\ UNCHANGED notmac

NextMac ==
  \/ \E digits \in DigitStrings, sep \in Separators, group \in Groupings :
       NormalizeCall(digits, Spell(digits, sep, group))
  \/ \E digits \in DigitStrings, sep \in Separators, group \in Groupings :
       MagicPacketCall(digits, Spell(digits, sep, group))

InitMac ==
  /\ InitShared
  /\ net = NoNetwork
  /\ sw = SwIdle
  /\ lastcall = <<>>
  /\ devices = <<>>
  /\ req = <<>>
  /\ ports = {}
  /\ rules = <<>>
  /\ sent = <<>>
  /\ call = <<>>
  /\ wol = NoMacCall

SpecMac == InitMac /\ [][NextMac]_vars

\* ------------------------------------------------------------- SpecDetect
\* detect_device_type (app/port_scanner.py) applied to the findings of a port scan.

\* DEVICE_TYPE_SIGNATURES without the entry for ssh_server
SignaturesWithoutSsh ==
  <<[type |-> "router", ports |-> {80, 443, 53}],
    [type |-> "nas", ports |-> {80, 443, 445, 548, 22}],
    [type |-> "printer", ports |-> {631, 9100, 80}],
    [type |-> "web_server", ports |-> {80, 443}],
    [type |-> "database", ports |-> {3306, 5432, 27017}],
    [type |-> "iot_device", ports |-> {1883, 8883, 80}],
    [type |-> "media_server", ports |-> {32400, 8096, 32469}],
    [type |-> "windows_pc", ports |-> {445, 3389, 135}],
    [type |-> "raspberry_pi", ports |-> {22, 80}],
    [type |-> "camera", ports |-> {80, 554, 8000}]>>

\* the dictionary in the order of its entries, which is the order items() yields
DEVICE_TYPE_SIGNATURES ==
  <<[type |-> "router", ports |-> {80, 443, 53}],
    [type |-> "nas", ports |-> {80, 443, 445, 548, 22}],
    [type |-> "printer", ports |-> {631, 9100, 80}],
    [type |-> "web_server", ports |-> {80, 443}],
    [type |-> "database", ports |-> {3306, 5432, 27017}],
    [type |-> "iot_device", ports |-> {1883, 8883, 80}],
    [type |-> "media_server", ports |-> {32400, 8096, 32469}],
    [type |-> "ssh_server", ports |-> {22}],
    [type |-> "windows_pc", ports |-> {445, 3389, 135}],
    [type |-> "raspberry_pi", ports |-> {22, 80}],
    [type |-> "camera", ports |-> {80, 554, 8000}]>>

\* the ports a scanned host may have open in SpecDetect
DetectPorts == {22, 53, 80, 135, 443, 445, 548, 631, 1883, 3389, 9100}

\* a score matches / size is kept as the pair; ('unknown', 0) is 0 / 1
NoMatch == [type |-> "unknown", matches |-> 0, size |-> 1]

\* a comparison in line 181 that also replaces an equal score
ScoreNotLower(matches, size, best) == matches * best.size >= best.matches * size

\* line 181: match_score > best_match[1]
ScoreHigher(matches, size, best) == matches * best.size > best.matches * size

\* lines 173-182 from the i-th signature on
RECURSIVE BestMatchFrom(_, _, _)
BestMatchFrom(i, port_numbers, best_match) ==
  IF i > Len(DEVICE_TYPE_SIGNATURES) THEN best_match
  ELSE LET sig == DEVICE_TYPE_SIGNATURES[i]
           matches == Cardinality(sig.ports \cap port_numbers)
       IN BestMatchFrom(i + 1, port_numbers,
            IF matches > 0 /\ ScoreHigher(matches, Cardinality(sig.ports), best_match)
            THEN [type |-> sig.type, matches |-> matches, size |-> Cardinality(sig.ports)]
            ELSE best_match)

\* lines 188-196
SinglePortFallback(port_numbers) ==
  IF 22 \in port_numbers /\ 80 \notin port_numbers THEN "ssh_server"
  ELSE IF 80 \in port_numbers \/ 443 \in port_numbers THEN "web_server"
  ELSE IF 445 \in port_numbers THEN "windows_pc"
  ELSE "unknown"

\* a detect_device_type that returns the best match whatever its score
DetectWithoutThreshold(open_ports) ==
  IF open_ports = <<>> THEN "unknown"
  ELSE LET port_numbers == {open_ports[k].port : k \in 1..Len(open_ports)}
           best_match == BestMatchFrom(1, port_numbers, NoMatch)
       IN IF best_match.matches > 0 THEN best_match.type
          ELSE SinglePortFallback(port_numbers)

detect_device_type(open_ports) ==
  IF open_ports = <<>> THEN "unknown"
  ELSE LET port_numbers == {open_ports[k].port : k \in 1..Len(open_ports)}
           best_match == BestMatchFrom(1, port_numbers, NoMatch)
       IN IF 2 * best_match.matches >= best_match.size THEN best_match.type
          ELSE SinglePortFallback(port_numbers)

notdetect == <<scan_in_progress, last_scan_time, last_scan_results, nsweeps, now, net, sw,
               task, trig, poll, npolls, reader, alerts, lastcall, req, ports, rules, sent,
               wol>>

\* the list in the opposite order
Reversed(seq) == [i \in 1..Len(seq) |-> seq[Len(seq) + 1 - i]]

\* detect_device_type(open_ports)
Detect ==
  /\ call.fn = None
  /\ call' = [call EXCEPT !.fn = "detect_device_type",
                          !.value = detect_device_type(call.open_ports)]
  /\ UNCHANGED storevars
  /\ UNCHANGED notdetect

NextDetect == Detect

\* the findings of a scan, in ascending or in descending order of port
InitDetect ==
  /\ InitShared
  /\ net = NoNetwork
  /\ sw = SwIdle
  /\ lastcall = <<>>
  /\ devices = <<>>
  /\ req = <<>>
  /\ ports = {}
  /\ rules = <<>>
  /\ sent = <<>>
  /\ wol = <<>>
  /\ \E open \in SUBSET DetectPorts, descending \in BOOLEAN :
       LET found == scan_device_ports(Sorted(DetectPorts), open)
       IN call = [fn |-> None, value |-> None,
                  open_ports |-> IF descending THEN Reversed(found) ELSE found]

SpecDetect == InitDetect /\ [][NextDetect]_vars

\* -------------------------------------------------------------- SpecProbe
\* scan_device_ports (app/port_scanner.py) with its probes completing in any order.

\* the port lists probed in SpecProbe: unsorted, one with a port COMMON_PORTS does
\* not have
ProbeLists == {<<80, 22, 31337, 443>>, <<8080, 21, 22>>}

\* the ports a probed host may accept connections on; 25 is in neither list
ProbeOpen == {21, 22, 25, 80, 443, 8080, 31337}

\* the findings in the order in which the futures complete: order[k] is the
\* position in port_list of the k-th future as_completed yields (lines 115-118)
RECURSIVE Completed(_, _, _, _)
Completed(port_list, open, order, k) ==
  IF k > Len(order) THEN <<>>
  ELSE scan_port(port_list[order[k]], open) \o Completed(port_list, open, order, k + 1)

\* list.sort(key=lambda x: x['port']), a stable sort: entry x goes behind the
\* entries of sorted whose port is not greater
InsertByPort(sorted, x) ==
  LET n == Cardinality({i \in 1..Len(sorted) : sorted[i].port <= x.port})
  IN SubSeq(sorted, 1, n) \o <<x>> \o SubSeq(sorted, n + 1, Len(sorted))

RECURSIVE SortByPort(_)
SortByPort(found) ==
  IF found = <<>> THEN <<>>
  ELSE InsertByPort(SortByPort(SubSeq(found, 1, Len(found) - 1)), found[Len(found)])

\* a scan_device_ports without line 121
ScanDevicePortsUnsorted(port_list, open, order) == Completed(port_list, open, order, 1)

\* scan_device_ports(ip, port_list): open stands for the host at ip
ScanDevicePortsCompleted(port_list, open, order) ==
  SortByPort(Completed(port_list, open, order, 1))

notprobe == <<scan_in_progress, last_scan_time, last_scan_results, nsweeps, now, net, sw,
              task, trig, poll, npolls, reader, alerts, lastcall, req, ports, rules, sent,
              wol>>

ProbeRun ==
  /\ call.fn = None
  /\ call' = [call EXCEPT !.fn = "scan_device_ports",
                          !.value = ScanDevicePortsCompleted(call.port_list, call.open,
                                                             call.order)]
  /\ UNCHANGED storevars
  /\ UNCHANGED notprobe

NextProbe == ProbeRun

InitProbe ==
  /\ InitShared
  /\ net = NoNetwork
  /\ sw = SwIdle
  /\ lastcall = <<>>
  /\ devices = <<>>
  /\ req = <<>>
  /\ ports = {}
  /\ rules = <<>>
  /\ sent = <<>>
  /\ wol = <<>>
  /\ \E port_list \in ProbeLists, open \in SUBSET ProbeOpen :
       \E order \in Orders(1..Len(port_list)) :
         call = [fn |-> None, value |-> <<>>, port_list |-> port_list, open |-> open,
                 order |-> order]

SpecProbe == InitProbe /\ [][NextProbe]_vars

\* --------------------------------------------------------------- SpecPoll
\* quick_scan_known_devices and check_device_status (app/scanner.py) called with the
\* devices of the store, as check_device_statuses calls them.

\* what happens to one check_device_status call: the host answers the probe, it does
\* not, or the call raises (reading the device fails in the worker thread)
CheckAnswers == {"up", "down", "raise"}

\* a check_device_status that probes a device without address too
CheckStatusAlwaysProbes(device, answer) ==
  IF answer = "raise" THEN [raises |-> TRUE, result |-> <<>>, probed |-> <<>>]
  ELSE [raises |-> FALSE,
        result |-> [online |-> answer = "up",
                    message |-> IF answer = "up" THEN "Device is reachable"
                                ELSE "Device is not reachable"],
        probed |-> <<device.ip>>]

\* check_device_status: probed lists the addresses handed to ping_host
check_device_status(device, answer) ==
  IF answer = "raise" THEN [raises |-> TRUE, result |-> <<>>, probed |-> <<>>]
  ELSE IF device.ip = NoIp
  THEN [raises |-> FALSE, result |-> [online |-> FALSE, message |-> "No IP address"],
        probed |-> <<>>]
  ELSE [raises |-> FALSE,
        result |-> [online |-> answer = "up",
                    message |-> IF answer = "up" THEN "Device is reachable"
                                ELSE "Device is not reachable"],
        probed |-> <<device.ip>>]

\* quick_scan_known_devices, lines 485-495, from the k-th completed future on; the
\* device with id i is devs[i]
RECURSIVE QuickScanFrom(_, _, _, _, _)
QuickScanFrom(devs, answers, order, k, acc) ==
  IF k > Len(order) THEN acc
  ELSE LET id == order[k]
           c == check_device_status(devs[id], answers[id])
       IN QuickScanFrom(devs, answers, order, k + 1,
            [results |-> (id :> IF c.raises THEN [online |-> FALSE, message |-> "Error"]
                                ELSE c.result) @@ acc.results,
             probed |-> acc.probed \o c.probed,
             raised |-> FALSE])

notpoll == <<scan_in_progress, last_scan_time, last_scan_results, nsweeps, now, net, sw,
             task, trig, poll, npolls, reader, alerts, lastcall, req, ports, rules, sent,
             wol>>

\* quick_scan_known_devices(Device.query.all())
QuickScan(answers, order) ==
  /\ call.fn = None
  /\ LET r == QuickScanFrom(devices, answers, order, 1,
                            [results |-> <<>>, probed |-> <<>>, raised |-> FALSE])
     IN call' = [fn |-> "quick_scan_known_devices", answers |-> answers,
                 value |-> r.results, probed |-> r.probed, raised |-> r.raised]
  /\ UNCHANGED storevars
  /\ UNCHANGED notpoll

NextPoll ==
  \E answers \in [1..Len(devices) -> CheckAnswers], order \in Orders(1..Len(devices)) :
    QuickScan(answers, order)

\* three devices, each with or without an address
InitPoll ==
  /\ InitShared
  /\ net = NoNetwork
  /\ sw = SwIdle
  /\ lastcall = <<>>
  /\ \E ips \in [1..3 -> {NoIp, 1, 2}] :
       devices = [i \in 1..3 |->
                    [mac |-> normalize_mac([j \in 1..12 |-> <<"a", "b", "c">>[i]]),
                     ip |-> ips[i], hostname |-> None, last_seen |-> Never,
                     is_manual |-> ips[i] = NoIp]]
  /\ req = <<>>
  /\ ports = {}
  /\ rules = <<>>
  /\ sent = <<>>
  /\ wol = <<>>
  /\ call = [fn |-> None, answers |-> <<>>, value |-> <<>>, probed |-> <<>>,
             raised |-> FALSE]

SpecPoll == InitPoll /\ [][NextPoll]_vars

\* ------------------------------------------------------------ SpecDerived
\* Device.status (app/models.py) read through to_dict while the status poll and
\* single-device checks run and the clock passes the liveness window second by
\* second.

\* the instants of SpecDerived, in seconds: around one and two liveness windows
ClockValues == {0, 1, 599, 600, 601, 1199, 1200}

\* time passes from one of the instants to a later one
TickTo(t) ==
  /\ t \in ClockValues
  /\ t > now
  /\ now' = t
  /\ UNCHANGED <<scan_in_progress, last_scan_time, last_scan_results, nsweeps, task, trig,
                 poll, npolls, reader>>
  /\ UNCHANGED storevars
  /\ UNCHANGED othervars

\* Device.to_dict()['status'] of the committed row
ReadStatus(id) ==
  /\ id \in 1..Len(devices)
  /\ call' = [fn |-> "status", id |-> id, last_seen |-> devices[id].last_seen,
              at |-> now, value |-> DeviceStatus(devices[id].last_seen, now)]
  /\ UNCHANGED <<scan_in_progress, last_scan_time, last_scan_results, nsweeps, now, net, sw,
                 task, trig, poll, npolls, reader, alerts, lastcall, req, ports, rules,
                 sent, wol>>
  /\ UNCHANGED storevars

NextDerived ==
  \/ PollNext
  \/ \E t \in ClockValues : TickTo(t)
  \/ \E id \in 1..Len(devices) : ReadStatus(id)

\* a device never seen and a device seen at instant 0
InitDerived ==
  /\ InitShared
  /\ net = NoNetwork
  /\ sw = SwIdle
  /\ lastcall = <<>>
  /\ devices = <<[mac |-> "m1", ip |-> 1, hostname |-> None, last_seen |-> Never,
                  is_manual |-> TRUE],
                 [mac |-> "m2", ip |-> 2, hostname |-> None, last_seen |-> 0,
                  is_manual |-> FALSE]>>
  /\ req = <<>>
  /\ ports = {}
  /\ rules = <<>>
  /\ sent = <<>>
  /\ wol = <<>>
  /\ call = [fn |-> None, id |-> 0, last_seen |-> Never, at |-> 0, value |-> None]

SpecDerived == InitDerived /\ [][NextDerived]_vars

\* -------------------------------------------------------------- SpecNames
\* get_hostname (app/scanner.py) with each of its four resolvers answering, failing
\* or missing.

\* the resolvers in the order of lines 207-256
Resolvers == <<"dns", "mdns", "ssdp", "netbios">>

\* what a resolver does: it yields a name, it yields the address itself ("ip"), it
\* finds nothing ("none"), its program is not installed ("unavailable"), it raises
\* ("error"). gethostbyaddr answers or raises; get_ssdp_info catches its own errors.
ResolverAnswers ==
  [dns : {"h1", "h2.local", "ip", "error"},
   mdns : {"h1", "h2.local", "ip", "none", "unavailable", "error"},
   ssdp : {"h3", "none"},
   netbios : {"H4", "ip", "none", "unavailable", "error"}]

\* str.replace('.local', '') on the names above
StripLocal(name) == IF name = "h2.local" THEN "h2" ELSE name

\* the answer is a name and not the address
IsName(answer) == answer \notin {"ip", "none", "unavailable", "error"}

\* a get_hostname that gives up when the reverse lookup raises
GetHostnameErrorEnds(out) ==
  IF out.dns = "error" THEN [value |-> None, tried |-> <<"dns">>]
  ELSE IF IsName(out.dns) THEN [value |-> StripLocal(out.dns), tried |-> <<"dns">>]
  ELSE IF IsName(out.mdns)
  THEN [value |-> StripLocal(out.mdns), tried |-> <<"dns", "mdns">>]
  ELSE IF IsName(out.ssdp) THEN [value |-> out.ssdp, tried |-> <<"dns", "mdns", "ssdp">>]
  ELSE IF IsName(out.netbios)
  THEN [value |-> out.netbios, tried |-> <<"dns", "mdns", "ssdp", "netbios">>]
  ELSE [value |-> None, tried |-> <<"dns", "mdns", "ssdp", "netbios">>]

\* get_hostname with the resolvers spelled out: the name returned and the resolvers
\* called
get_hostname_resolvers(out) ==
  IF IsName(out.dns) THEN [value |-> StripLocal(out.dns), tried |-> <<"dns">>]
  ELSE IF IsName(out.mdns)
  THEN [value |-> StripLocal(out.mdns), tried |-> <<"dns", "mdns">>]
  ELSE IF IsName(out.ssdp) THEN [value |-> out.ssdp, tried |-> <<"dns", "mdns", "ssdp">>]
  ELSE IF IsName(out.netbios)
  THEN [value |-> out.netbios, tried |-> <<"dns", "mdns", "ssdp", "netbios">>]
  ELSE [value |-> None, tried |-> <<"dns", "mdns", "ssdp", "netbios">>]

notnames == <<scan_in_progress, last_scan_time, last_scan_results, nsweeps, now, net, sw,
              task, trig, poll, npolls, reader, alerts, lastcall, req, ports, rules, sent,
              wol>>

\* get_hostname(ip)
Resolve ==
  /\ call.fn = None
  /\ LET r == get_hostname_resolvers(call.out)
     IN call' = [call EXCEPT !.fn = "get_hostname", !.value = r.value, !.tried = r.tried]
  /\ UNCHANGED storevars
  /\ UNCHANGED notnames

NextNames == Resolve

InitNames ==
  /\ InitShared
  /\ net = NoNetwork
  /\ sw = SwIdle
  /\ lastcall = <<>>
  /\ devices = <<>>
  /\ req = <<>>
  /\ ports = {}
  /\ rules = <<>>
  /\ sent = <<>>
  /\ wol = <<>>
  /\ \E out \in ResolverAnswers :
       call = [fn |-> None, out |-> out, value |-> None, tried |-> <<>>]

SpecNames == InitNames /\ [][NextNames]_vars

\* -------------------------------------------------------------- SpecFrame
\* One iteration of the reconciliation loop of scheduled_network_scan on a store
\* holding one device with all its columns, for every combination of stored columns
\* and every sweep entry.

\* update_device_from_scan: the device after the call; updated_at is assigned when
\* a column was assigned (line 464)
update_device_from_scan(device, scan_result, t) ==
  LET ch == ScanChanges(device, scan_result)
  IN IF DOMAIN ch = {} THEN device
     ELSE ApplyChange(ApplyChange(device, ch), [updated_at |-> t])

\* the stored devices of SpecFrame
FrameDevices ==
  [mac : {normalize_mac([i \in 1..12 |-> "a"])}, ip : {NoIp, 1}, hostname : {None, "h1"},
   nickname : {None, "n1"}, group : {None, "g1"}, icon : {"device"},
   is_favorite : BOOLEAN, is_manual : BOOLEAN, last_seen : {Never, 0}, updated_at : {0}]

\* the entries of a sweep result: scan_host always gives the address, the hardware
\* address and the probe time, and the name when a resolver answered
FrameEntries ==
  [ip : {1, 2}, hostname : {None, "h1", "h2"}, mac : StoreMacs, last_seen : {1},
   is_local_host : {FALSE}]

\* scheduled_network_scan, lines 31-60, for the entry at hand
ReconcileOne ==
  /\ call.fn = None
  /\ LET e == call.entry
         id == FindByMac(devices, e.mac)
     IN /\ IF id # 0
           THEN /\ devices' = [devices EXCEPT ![id] = update_device_from_scan(@, e, now)]
                /\ history' = AddIfChanged(history, id, "online")
           ELSE /\ devices' = Append(devices, NewDevice(e))
                /\ history' = Append(history, [device_id |-> Len(devices) + 1,
                                               status |-> "online"])
        /\ call' = [call EXCEPT !.fn = "reconcile", !.existing = id]
  /\ UNCHANGED <<dblock, wdevices, whistory, pend>>
  /\ UNCHANGED notdetect

NextFrame == ReconcileOne

InitFrame ==
  /\ scan_in_progress = FALSE
  /\ last_scan_time = 0
  /\ last_scan_results = NoResults
  /\ nsweeps = 0
  /\ now = 2
  /\ task = [t \in Sweepers |-> TaskIdle]
  /\ trig = [count |-> 0, code |-> 0]
  /\ dblock = None
  /\ wdevices = <<>>
  /\ whistory = <<>>
  /\ pend = [p \in Sessions |-> EmptyPend]
  /\ poll = PollIdle
  /\ npolls = 0
  /\ reader = ReaderIdle
  /\ alerts = <<>>
  /\ net = NoNetwork
  /\ sw = SwIdle
  /\ lastcall = <<>>
  /\ req = <<>>
  /\ ports = {}
  /\ rules = <<>>
  /\ sent = <<>>
  /\ wol = <<>>
  /\ \E device \in FrameDevices :
       /\ devices = <<device>>
       /\ history = IF device.last_seen = Never THEN <<>>
                    ELSE <<[device_id |-> 1, status |-> "online"]>>
  /\ \E e \in FrameEntries : call = [fn |-> None, entry |-> e, existing |-> 0]

SpecFrame == InitFrame /\ [][NextFrame]_vars

\* -------------------------------------------------------------- SpecNotify
\* create_alert (app/alerts.py) in its two steps, the commit of the alert and the
\* processing of the rules, over tables of alert rules, for the devices of the store
\* and for the id of no device, the mail server and the webhook endpoint answering
\* or failing.

\* create_alert calls in one behaviour of SpecNotify
MaxNotify == 2

\* the rule tables of SpecNotify: none; a rule for status changes of every device on
\* both channels; that rule disabled; it and a webhook rule for new favourites
NotifyRule(event_type, enabled, device_filter, notify_email) ==
  [event_type |-> event_type, enabled |-> enabled, device_filter |-> device_filter,
   notify_email |-> notify_email, notify_webhook |-> TRUE, webhook_url |-> "url"]

NotifyTables ==
  {<<>>,
   <<NotifyRule("device_offline", TRUE, "all", TRUE)>>,
   <<NotifyRule("device_offline", FALSE, "all", TRUE)>>,
   <<NotifyRule("new_device", TRUE, "favorites", FALSE),
     NotifyRule("device_offline", TRUE, "all", TRUE)>>}

\* a process_alert_rules that marks the alert only when a rule applied
NotifiedWhenMatched(exists, r) == exists /\ r.matched # {}

\* process_alert_rules, lines 50-52 and 73-75: the flag is set once the loop over the
\* rules is over, for an alert whose device exists
MarkNotified(exists, r) == exists /\ ~r.raised

NotifyIdle == [n |-> 0, pc |-> "idle", alert |-> 0, device_id |-> 0, alert_type |-> None,
               matched |-> {}]

\* create_alert, lines 27-35: the alert is added and committed; is_notified has its
\* default
AlertCommit(device_id, alert_type, severity) ==
  /\ call.pc \in {"idle", "returned"}
  /\ call.n < MaxNotify
  /\ alerts' = create_alert(alerts, FALSE, device_id, alert_type, severity, <<>>)
  /\ call' = [n |-> call.n + 1, pc |-> "process", alert |-> Len(alerts) + 1,
              device_id |-> device_id, alert_type |-> alert_type, matched |-> {}]
  /\ UNCHANGED <<rules, sent>>
  /\ UNCHANGED storevars
  /\ UNCHANGED notrules

\* create_alert, lines 38-40: process_alert_rules(alert), then the alert is returned
ProcessRules(out) ==
  /\ call.pc = "process"
  /\ LET r == process_alert_rules(rules, call.alert_type, devices, call.device_id, out)
     IN /\ alerts' = [alerts EXCEPT ![call.alert].is_notified =
                        MarkNotified(call.device_id \in 1..Len(devices), r)]
        /\ sent' = sent \o r.log
        /\ call' = [call EXCEPT !.pc = "returned", !.matched = r.matched]
  /\ UNCHANGED rules
  /\ UNCHANGED storevars
  /\ UNCHANGED notrules

NextNotify ==
  \/ \E device_id \in 1..(Len(devices) + 1), alert_type \in AlertTypes,
        severity \in {"info", "warning"} : AlertCommit(device_id, alert_type, severity)
  \/ \E out \in ChannelOutcomes(rules) : ProcessRules(out)

InitNotify ==
  /\ InitShared
  /\ net = NoNetwork
  /\ sw = SwIdle
  /\ lastcall = <<>>
  /\ devices = <<RuleDevice("a", TRUE, "lab"), RuleDevice("b", FALSE, None)>>
  /\ req = <<>>
  /\ ports = {}
  /\ rules \in NotifyTables
  /\ sent = <<>>
  /\ call = NotifyIdle
  /\ wol = <<>>

SpecNotify == InitNotify /\ [][NextNotify]_vars

\* --------------------------------------------------------------- SpecJobs
\* The job table of the background scheduler (app/scheduler.py): init_scheduler,
\* then toggle_auto_scan and update_scan_interval called in any order. Nothing in
\* the repository calls the latter two; here an outside caller does. The table is
\* the scheduler's list of jobs; a job is its id, its function, and the seconds of
\* its interval trigger (0 for the cron trigger of the cleanup).

\* toggle_auto_scan and update_scan_interval calls in one behaviour of SpecJobs
MaxJobCalls == 4

\* stands for a scan_interval setting int() rejects, or an interval the trigger
\* rejects: update_settings stores any string
BadInterval == 0

\* the values of setting scan_interval and the arguments of update_scan_interval
Intervals == {BadInterval, 60, 300, 3600}

Job(id, func, seconds) == [id |-> id, func |-> func, seconds |-> seconds]

\* scheduler.get_job(id): the position of the job, 0 for None
get_job(jobs, id) ==
  LET is == {i \in 1..Len(jobs) : jobs[i].id = id}
  IN IF is = {} THEN 0 ELSE CHOOSE i \in is : \A j \in is : i <= j

\* an add_job without replace_existing, on a store that does not check the id
AddJobAgain(jobs, job) == Append(jobs, job)

\* scheduler.add_job(..., id=id, replace_existing=True)
add_job(jobs, job) ==
  IF get_job(jobs, job.id) # 0 THEN [jobs EXCEPT ![get_job(jobs, job.id)] = job]
  ELSE Append(jobs, job)

\* scheduler.remove_job(id)
remove_job(jobs, id) ==
  LET Other(j) == j.id # id
  IN SelectSeq(jobs, Other)

\* scheduler.reschedule_job(id, trigger='interval', seconds=seconds)
reschedule_job(jobs, id, seconds) == [jobs EXCEPT ![get_job(jobs, id)].seconds = seconds]

\* lines 158-176, 226-242: the two periodic jobs of automatic scanning
AddScanJobs(jobs, scan_interval) ==
  add_job(add_job(jobs, Job("network_scan", "scheduled_network_scan", scan_interval)),
          Job("status_check", "check_device_statuses", 120))

\* init_scheduler, for the values of settings auto_scan and scan_interval
init_scheduler(auto_scan, scan_interval) ==
  add_job(IF auto_scan = "true" THEN AddScanJobs(<<>>, scan_interval) ELSE <<>>,
          Job("history_cleanup", "cleanup_old_history", 0))

\* toggle_auto_scan(enabled); scan_interval is the setting read on line 224, and an
\* exception from int() is caught on line 253 before any job is added
toggle_auto_scan(jobs, enabled, scan_interval) ==
  IF enabled
  THEN IF scan_interval = BadInterval THEN jobs ELSE AddScanJobs(jobs, scan_interval)
  ELSE LET j1 == IF get_job(jobs, "network_scan") # 0 THEN remove_job(jobs, "network_scan")
                 ELSE jobs
       IN IF get_job(j1, "status_check") # 0 THEN remove_job(j1, "status_check") ELSE j1

\* update_scan_interval(interval_seconds): the sweep job is rescheduled when there is
\* one; an exception from the trigger is caught on line 209
update_scan_interval(jobs, interval_seconds) ==
  IF get_job(jobs, "network_scan") # 0 /\ interval_seconds # BadInterval
  THEN reschedule_job(jobs, "network_scan", interval_seconds)
  ELSE jobs

notjobs == <<scan_in_progress, last_scan_time, last_scan_results, nsweeps, now, net, sw,
             task, trig, poll, npolls, reader, alerts, lastcall, req, ports, rules, sent,
             wol>>

ToggleAutoScan(enabled, scan_interval) ==
  /\ call.n < MaxJobCalls
  /\ call' = [n |-> call.n + 1, fn |-> "toggle_auto_scan", enabled |-> enabled,
              seconds |-> scan_interval,
              jobs |-> toggle_auto_scan(call.jobs, enabled, scan_interval)]
  /\ UNCHANGED storevars
  /\ UNCHANGED notjobs

UpdateScanInterval(interval_seconds) ==
  /\ call.n < MaxJobCalls
  /\ call' = [n |-> call.n + 1, fn |-> "update_scan_interval", enabled |-> FALSE,
              seconds |-> interval_seconds,
              jobs |-> update_scan_interval(call.jobs, interval_seconds)]
  /\ UNCHANGED storevars
  /\ UNCHANGED notjobs

NextJobs ==
  \/ \E enabled \in BOOLEAN, scan_interval \in Intervals :
       ToggleAutoScan(enabled, scan_interval)
  \/ \E interval_seconds \in Intervals : UpdateScanInterval(interval_seconds)

\* init_scheduler has run with a scan_interval setting that int() accepts (it reads
\* the setting outside any try block: the application does not start otherwise)
InitJobs ==
  /\ InitShared
  /\ net = NoNetwork
  /\ sw = SwIdle
  /\ lastcall = <<>>
  /\ devices = <<>>
  /\ req = <<>>
  /\ ports = {}
  /\ rules = <<>>
  /\ sent = <<>>
  /\ wol = <<>>
  /\ \E auto_scan \in {"true", "false"}, scan_interval \in Intervals \ {BadInterval} :
       call = [n |-> 0, fn |-> "init_scheduler", enabled |-> auto_scan = "true",
               seconds |-> scan_interval, jobs |-> init_scheduler(auto_scan, scan_interval)]

SpecJobs == InitJobs /\ [][NextJobs]_vars

\* ------------------------------------------------------------ SpecCleanup
\* cleanup_old_history (app/scheduler.py), the daily job, on a store that holds a
\* device, its port finding, an alert and StatusEvents of several ages. Time is in
\* days here; the job runs on day CleanupDay.

\* the day the job runs
CleanupDay == 40

\* stands for a history_retention_days setting int() rejects
BadRetention == -1

\* the values of setting history_retention_days: the default 30, a week, unreadable
RetentionSettings == {30, 7, BadRetention}

\* the days StatusEvents were recorded: around the cutoff of 30 days (day 10) and at
\* the cutoff of 7 days (day 33)
EventDays == {9, 10, 11, 33}

\* StatusEvents at most
MaxEvents == 3

\* a cleanup that also deletes the rows recorded at the cutoff
DeleteUpToCutoff(h, cutoff_date) ==
  LET Kept(row) == ~(row.timestamp <= cutoff_date)
  IN SelectSeq(h, Kept)

\* lines 127-129: DeviceHistory.query.filter(timestamp < cutoff_date).delete()
DeleteOlderThan(h, cutoff_date) ==
  LET Kept(row) == ~(row.timestamp < cutoff_date)
  IN SelectSeq(h, Kept)

\* cleanup_old_history: the table after the job; an exception from int() is caught
\* on line 135 before anything is deleted
cleanup_old_history(h, t, retention_days) ==
  IF retention_days = BadRetention THEN h
  ELSE DeleteOlderThan(h, t - retention_days)

Cleanup(retention_days) ==
  /\ call.fn = None
  /\ dblock = None
  /\ history' = cleanup_old_history(history, now, retention_days)
  /\ call' = [fn |-> "cleanup_old_history", retention_days |-> retention_days,
              deleted |-> Len(history) - Len(history')]
  /\ UNCHANGED <<devices, dblock, wdevices, whistory, pend>>
  /\ UNCHANGED notdetect

NextCleanup == \E retention_days \in RetentionSettings : Cleanup(retention_days)

\* the rows are in insertion order, so their timestamps do not decrease
InitCleanup ==
  /\ scan_in_progress = FALSE
  /\ last_scan_time = 0
  /\ last_scan_results = NoResults
  /\ nsweeps = 0
  /\ now = CleanupDay
  /\ task = [t \in Sweepers |-> TaskIdle]
  /\ trig = [count |-> 0, code |-> 0]
  /\ dblock = None
  /\ wdevices = <<>>
  /\ whistory = <<>>
  /\ pend = [p \in Sessions |-> EmptyPend]
  /\ poll = PollIdle
  /\ npolls = 0
  /\ reader = ReaderIdle
  /\ net = NoNetwork
  /\ sw = SwIdle
  /\ lastcall = <<>>
  /\ req = <<>>
  /\ rules = <<>>
  /\ sent = <<>>
  /\ wol = <<>>
  /\ devices = <<UpsertDevice(33, FALSE)>>
  /\ ports = PortsReplaced({}, 1, full_port_scan({22}))
  /\ alerts = create_alert(<<>>, TRUE, 1, "status_change", "warning", <<>>)
  /\ \E n \in 0..MaxEvents, days \in [1..MaxEvents -> EventDays],
        status \in [1..MaxEvents -> {"online", "offline"}] :
       /\ \A i \in 1..(n - 1) : days[i] <= days[i + 1]
       /\ \A i \in (n + 1)..MaxEvents : days[i] = 9 /\ status[i] = "online"
       /\ history = [i \in 1..n |-> [id |-> i, device_id |-> 1, status |-> status[i],
                                      timestamp |-> days[i]]]
  /\ call = [fn |-> None, retention_days |-> 0, deleted |-> 0]

SpecCleanup == InitCleanup /\ [][NextCleanup]_vars

\* ================================================================ claims

\* the threads inside scan_network: past line 344, not past line 409
RunningSweeps ==
  {t \in Sweepers : task[t].pc \in {"scanning", "store_results", "store_time", "finally"}}

\* C1: a trigger_scan request handled while scan_in_progress is true is answered 409
\* and starts nothing: the sweep threads, the count of sweeps, the scan state and
\* the device store are the same after the request as before it.
C1_ConflictRejected ==
  [][(trig'.count # trig.count /\ scan_in_progress) =>
       /\ trig'.code = 409
       /\ RunningSweeps' = RunningSweeps
       /\ UNCHANGED <<task, nsweeps, scan_in_progress, last_scan_time, last_scan_results>>
       /\ UNCHANGED storevars]_vars

C1_Witness == trig.code = 409 /\ scan_in_progress /\ Cardinality(RunningSweeps) = 1

\* C2: at most one execution of scan_network is running at any time.
C2_SingleSweep == Cardinality(RunningSweeps) <= 1

\* C3: a sweep running alone has the flag set from its entry to its finally block
\* and cleared once it has returned, whichever way it left the try block.
C3_FlagLifecycle ==
  /\ sw.pc \in {"probing", "store_results", "store_time", "finally"} => scan_in_progress
  /\ sw.pc = "returned" => ~scan_in_progress /\ sw.exit \in {"ok", "badcidr", "exception"}

C3_Witness == sw.pc = "returned" /\ sw.exit = "exception" /\ sw.devices # <<>>

\* C4: last_scan_time and last_scan_results are written only by the two stores of a
\* sweep that completes normally. Every other step of a sweep leaves both unchanged,
\* a sweep that ends by exception or on an unparsable range takes none of the store
\* steps, and the store sets the count to the length of the list the sweep returns.
C4_WritesOnlyOnCompletion ==
  [][\A t \in Sweepers : task'[t] # task[t] =>
       /\ task[t].pc \notin {"store_results", "store_time"} =>
            UNCHANGED <<last_scan_time, last_scan_results>>
       /\ task'[t].exit \in {"exception", "badcidr"} =>
            UNCHANGED <<last_scan_time, last_scan_results>>
       /\ task[t].pc \in {"store_results", "store_time"} =>
            task[t].exit = "none" /\ task'[t].exit \in {"none", "ok"}
       /\ task[t].pc = "store_results" =>
            /\ ScanStatus(scan_in_progress', last_scan_time', last_scan_results').last_scan_count
                 = Len(task[t].found)
            /\ last_scan_time' = last_scan_time
       /\ task[t].pc \in {"store_results", "store_time", "finally"} =>
            task'[t].found = task[t].found]_vars

C4_Witness ==
  \E t \in Sweepers :
    /\ task[t].pc = "reconcile"
    /\ task[t].exit = "exception"
    /\ last_scan_time \notin {0, task[t].id}
    /\ last_scan_results.sweep = last_scan_time
    /\ Len(last_scan_results.devices) > 0

\* C5: the dictionary returned by get_scan_status is a consistent snapshot: its
\* last_scan_time and its last_scan_count were written by the same sweep.
C5_ConsistentSnapshot == reader.pc = "done" => reader.time = reader.count_of


\* the rows of device id in the committed history, oldest first
RECURSIVE HistoryOf(_, _)
HistoryOf(h, id) ==
  IF h = <<>> THEN <<>>
  ELSE (IF Head(h).device_id = id THEN <<Head(h).status>> ELSE <<>>) \o HistoryOf(Tail(h), id)

\* C6: no device's history holds two consecutive events with the same status.
C6_NoConsecutiveDuplicates ==
  \A id \in 1..Len(devices) :
    LET hs == HistoryOf(history, id)
    IN \A i \in 1..(Len(hs) - 1) : hs[i] # hs[i + 1]

\* C7: when check_device_status_change is called for a device with the status of its
\* previous call, nothing about the device or the clock having changed in between,
\* and the previous call created an alert, this call creates none.
C7_NoRepeatedStatusAlert ==
  [][\A id \in 1..Len(devices) :
       (/\ lastcall'[id].n = lastcall[id].n + 1
        /\ lastcall[id].n > 0
        /\ lastcall[id].created
        /\ lastcall'[id].status = lastcall[id].status
        /\ lastcall'[id].seen = lastcall[id].seen
        /\ lastcall'[id].at = lastcall[id].at)
       => alerts' = alerts]_vars

\* no thread is inside a handler and no transaction is open
Quiescent ==
  /\ \A t \in Sweepers : task[t].pc = "idle"
  /\ poll.pc = "idle"
  /\ dblock = None

HasAlert(id, alert_type) ==
  \E i \in 1..Len(alerts) : alerts[i].device_id = id /\ alerts[i].alert_type = alert_type

\* C8: once the handlers have returned, every device with a StatusEvent appended by
\* reconciliation has a status_change alert and every discovered device has a
\* new_device alert.
C8_ReconcileRaisesAlerts ==
  Quiescent =>
    \A id \in 1..Len(devices) :
      /\ HistoryOf(history, id) # <<>> => HasAlert(id, "status_change")
      /\ ~devices[id].is_manual => HasAlert(id, "new_device")


\* C9: the list of one sweep never holds two entries with the same hardware address.
C9_UniqueMacs ==
  \A i \in 1..Len(sw.devices) : \A j \in 1..Len(sw.devices) :
    i # j => sw.devices[i].mac # sw.devices[j].mac

\* C10 as stated: every entry has a hardware address, and the address of every entry
\* answered the probe and had its hardware address resolved from the neighbour table.
C10_EveryEntryProbedAndResolved ==
  \A i \in 1..Len(sw.devices) :
    LET e == sw.devices[i]
    IN /\ e.mac # None
       /\ e.ip \in 1..SweepHosts => (net.ping[e.ip] /\ net.arp[e.ip] # None)

\* C10 amended: every entry has a hardware address; every swept entry is an address
\* that answered the probe, with the hardware address the neighbour table gave for it;
\* the one other kind of entry is the local machine's, which carries the local address
\* and hardware address and is appended without a probe.
C10_SweptEntriesResolved ==
  \A i \in 1..Len(sw.devices) :
    LET e == sw.devices[i]
    IN /\ e.mac # None
       /\ IF e.is_local_host
          THEN e.ip = net.local_ip /\ e.mac = net.local_mac /\ i = Len(sw.devices)
          ELSE e.ip \in 1..SweepHosts /\ net.ping[e.ip] /\ net.arp[e.ip] = e.mac

C10_Witness ==
  /\ sw.pc = "returned"
  /\ sw.exit = "ok"
  /\ \E ip \in 1..SweepHosts : net.ping[ip] /\ net.arp[ip] = None
  /\ \E ip \in 1..SweepHosts : ~net.ping[ip] /\ net.arp[ip] # None
  /\ sw.devices # <<>>


\* C11: no two Device records share a hardware address, no Device record disappears
\* and the hardware address of a Device record never changes, whatever add_device
\* and update_device requests and reconciliation loops run side by side.
C11_MacUniqueAndImmutable ==
  [][/\ \A i \in 1..Len(devices') : \A j \in 1..Len(devices') :
          i # j => devices'[i].mac # devices'[j].mac
     /\ Len(devices') >= Len(devices)
     /\ \A i \in 1..Len(devices) : devices'[i].mac = devices[i].mac]_vars

C11_Witness ==
  /\ Len(devices) = 2
  /\ \E s \in AddRequests : req[s].raised = "IntegrityError"
  /\ \E t \in StoreLoops : req[t].raised = "IntegrityError"
  /\ req[UpdateRequest].code = 200


\* C12: when a reconciliation loop has applied the same sweep result a second time,
\* the store holds the Device records and the StatusEvents it held after the first
\* application.
C12_IdempotentUpsert ==
  \A t \in StoreLoops :
    (req[t].pc = "done" /\ req[t].runs = 2) =>
      /\ Len(devices) = Len(req[t].snap.d)
      /\ history = req[t].snap.h


\* the port numbers stored for a device
StoredPorts(rows, id) == {p.port : p \in {q \in rows : q.device_id = id}}

\* C13: the step that completes a port probe run of a device leaves as the stored
\* findings of that device exactly the open ports the run found, every one as an
\* open tcp port, and leaves the findings of the other devices as they were; a
\* request that is refused or whose run fails changes no finding.
C13_FindingsReplaced ==
  [][\A r \in PortRequests : req'[r] # req[r] =>
       IF req'[r].code = 200
       THEN LET id == req[r].device_id
            IN /\ StoredPorts(ports', id) = {req[r].found[i].port : i \in 1..Len(req[r].found)}
               /\ Cardinality({q \in ports' : q.device_id = id}) = Len(req[r].found)
               /\ \A q \in ports' : q.device_id = id => q.state = "open"
               /\ {q \in ports' : q.device_id # id} = {q \in ports : q.device_id # id}
       ELSE ports' = ports]_vars

C13_Witness ==
  \E r1 \in PortRequests, r2 \in PortRequests :
    /\ req[r1].code = 200 /\ req[r2].code = 200
    /\ req[r1].device_id = 1 /\ req[r2].device_id = 1
    /\ StoredPorts(ports, 1) = {80}
    /\ \E i \in 1..Len(req[r1].found) : req[r1].found[i].port = 631
    /\ StoredPorts(ports, 2) = {22}


\* the rule applies to an alert of the kind for the device, in the words of the
\* contract: enabled; offline and online rules are for status changes, new_device
\* and port_change rules for their own kind; no filter or all is every device,
\* favorites the favourite devices, any other filter the devices of that group
RuleApplies(rule, alert_type, device) ==
  /\ rule.enabled
  /\ \/ rule.event_type \in {"device_offline", "device_online"} /\ alert_type = "status_change"
     \/ rule.event_type = "new_device" /\ alert_type = "new_device"
     \/ rule.event_type = "port_change" /\ alert_type = "port_change"
  /\ \/ rule.device_filter \in {None, "", "all"}
     \/ rule.device_filter = "favorites" /\ device.is_favorite
     \/ rule.device_filter \notin {None, "", "all", "favorites"}
          /\ device.group = rule.device_filter

\* C14: when an alert is raised for a device of the store, the rules that reach the
\* dispatch of their channels are exactly the rules that apply; for an alert whose
\* device is not in the store no rule is dispatched.
C14_RuleDispatchedIffApplies ==
  [][Len(alerts') > Len(alerts) =>
       IF call'.device_id \in 1..Len(devices)
       THEN call'.matched =
              {i \in 1..Len(rules) :
                 RuleApplies(rules[i], call'.alert_type, devices[call'.device_id])}
       ELSE call'.matched = {} /\ sent' = sent]_vars

C14_Witness ==
  /\ Len(rules) = 2
  /\ call.device_id = 1
  /\ call.alert_type = "status_change"
  /\ call.matched = {1}
  /\ rules[1].event_type = "device_online" /\ rules[1].device_filter = "lab"
  /\ rules[2].enabled /\ rules[2].event_type = "status_change"
  /\ rules[2].device_filter = "all"


\* C15: a create_alert call returns normally with the alert stored, and has tried
\* every configured channel of every rule that applies, whatever the earlier sends
\* did: the mail of a rule when its notify_email is set, the POST of a rule when its
\* notify_webhook is set and it has a URL.
C15_ChannelFailuresSwallowed ==
  [][Len(alerts') > Len(alerts) =>
       LET new == SubSeq(sent', Len(sent) + 1, Len(sent'))
           d == call'.device_id
       IN /\ ~call'.raised
          /\ Len(alerts') = Len(alerts) + 1
          /\ alerts'[Len(alerts')].device_id = d
          /\ d \in 1..Len(devices) =>
               /\ alerts'[Len(alerts')].is_notified
               /\ \A i \in 1..Len(rules) :
                    RuleApplies(rules[i], call'.alert_type, devices[d]) =>
                      /\ rules[i].notify_email =>
                           \E k \in 1..Len(new) : new[k].rule = i /\ new[k].channel = "email"
                      /\ (rules[i].notify_webhook /\ rules[i].webhook_url \notin {None, ""}) =>
                           \E k \in 1..Len(new) : new[k].rule = i /\ new[k].channel = "webhook"]_vars

C15_Witness ==
  /\ Len(sent) = 4
  /\ sent[1] = [rule |-> 1, channel |-> "email", outcome |-> "error"]
  /\ sent[2] = [rule |-> 1, channel |-> "webhook", outcome |-> "error"]
  /\ sent[3] = [rule |-> 2, channel |-> "email", outcome |-> "sent"]
  /\ sent[4] = [rule |-> 2, channel |-> "webhook", outcome |-> "answered"]
  /\ alerts[1].is_notified
  /\ ~call.raised


\* C16: a check_new_device call for a device whose is_manual flag is set leaves the
\* alert table as it was; for a device whose flag is clear it appends exactly one
\* alert, of type new_device and severity info, for that device.
C16_NewDeviceOnlyWhenDiscovered ==
  [][(call'.fn = "check_new_device" /\ call'.n # call.n) =>
       LET id == call'.device_id
       IN IF devices[id].is_manual
          THEN alerts' = alerts
          ELSE /\ Len(alerts') = Len(alerts) + 1
               /\ SubSeq(alerts', 1, Len(alerts)) = alerts
               /\ alerts'[Len(alerts')].device_id = id
               /\ alerts'[Len(alerts')].alert_type = "new_device"
               /\ alerts'[Len(alerts')].severity = "info"]_vars

\* the helper was called for the discovered device, then for the manual one
C16_Witness ==
  /\ call.n = 2
  /\ call.fn = "check_new_device"
  /\ devices[call.device_id].is_manual
  /\ Len(alerts) = 1
  /\ alerts[1].alert_type = "new_device"
  /\ ~devices[alerts[1].device_id].is_manual

\* the port numbers of a list of findings
PortNumbers(found) == {found[k].port : k \in 1..Len(found)}

\* C17: a check_port_changes call appends, in this order, one port_change alert for
\* the newly opened ports when there are any, of severity warning when one of them
\* is 21, 23 or 3389 and info otherwise, and one port_change alert of severity info
\* for the newly closed ports when there are any; nothing else.
C17_PortChangeAlerts ==
  [][(call'.fn = "check_port_changes" /\ call'.n # call.n) =>
       LET opened == PortNumbers(call'.new_ports) \ PortNumbers(call'.old_ports)
           closed == PortNumbers(call'.old_ports) \ PortNumbers(call'.new_ports)
           added == SubSeq(alerts', Len(alerts) + 1, Len(alerts'))
           expected ==
             (IF opened # {}
              THEN <<IF opened \cap {21, 23, 3389} # {} THEN "warning" ELSE "info">>
              ELSE <<>>) \o
             (IF closed # {} THEN <<"info">> ELSE <<>>)
       IN /\ SubSeq(alerts', 1, Len(alerts)) = alerts
          /\ Len(added) = Len(expected)
          /\ \A k \in 1..Len(added) :
               /\ added[k].alert_type = "port_change"
               /\ added[k].device_id = call'.device_id
               /\ added[k].severity = expected[k]
          /\ opened # {} => added[1].meta = [opened_ports |-> opened]
          /\ closed # {} => added[Len(added)].meta = [closed_ports |-> closed]]_vars

\* telnet opened; then ssh opened with telnet still open, and remote desktop closed
C17_Witness ==
  /\ call.n = 2
  /\ call.fn = "check_port_changes"
  /\ PortNumbers(call.new_ports) = {22, 23}
  /\ PortNumbers(call.old_ports) = {23, 3389}
  /\ Len(alerts) = 3
  /\ alerts[1].severity = "warning"
  /\ alerts[1].meta = [opened_ports |-> {23}]
  /\ alerts[2].severity = "info"
  /\ alerts[2].meta = [opened_ports |-> {22}]
  /\ alerts[3].severity = "info"
  /\ alerts[3].meta = [closed_ports |-> {3389}]


\* the sends of a send_wol_packet call to the given port
SendsTo(w, port) == {k \in 1..Len(w.ops) : w.ops[k].op = "sendto" /\ w.ops[k].port = port}

\* C18: send_bulk_wol calls send_wol_packet for every address of the list, whichever
\* of them fail; for a list of distinct addresses the results dictionary has one
\* entry per address, the entry of an address is that address's own result (success
\* False exactly where its own call failed), and success_count is the number of
\* entries with success True.
C18_BulkWakeProcessesAll ==
  wol.fn = "send_bulk_wol" =>
    /\ Len(wol.calls) = Len(wol.macs)
    /\ wol.total = Len(wol.macs)
    /\ Cardinality(SeqRange(wol.macs)) = Len(wol.macs) =>
         /\ DOMAIN wol.results = SeqRange(wol.macs)
         /\ Cardinality(DOMAIN wol.results) = Len(wol.macs)
         /\ \A k \in 1..Len(wol.macs) :
              /\ wol.results[wol.macs[k]] = wol.calls[k].result
              /\ wol.results[wol.macs[k]].success =
                   (/\ normalize_mac(wol.macs[k]) # NoMac
                    /\ wol.fails[k] = "none")
         /\ wol.success_count =
              Cardinality({k \in 1..Len(wol.macs) : wol.results[wol.macs[k]].success})

\* three addresses, the second with eleven digits: three entries, two successes, and
\* the third address was sent its packet after the second had failed
C18_Witness ==
  /\ wol.fn = "send_bulk_wol"
  /\ wol.macs = <<[i \in 1..12 |-> "a"], [i \in 1..11 |-> "a"], [i \in 1..12 |-> "1"]>>
  /\ Cardinality(DOMAIN wol.results) = 3
  /\ wol.success_count = 2
  /\ ~wol.results[[i \in 1..11 |-> "a"]].success
  /\ wol.results[[i \in 1..12 |-> "a"]].success
  /\ wol.results[[i \in 1..12 |-> "1"]].success
  /\ SendsTo(wol.calls[3], 9) # {}

\* C19: a send_wol_packet call whose send to port 9 succeeded and whose send to
\* port 7 failed returns success True.
C19_SecondaryBestEffort ==
  wol.fn = "send_wol_packet" =>
    LET w == wol.calls[1]
    IN ((\E k \in SendsTo(w, 9) : w.ops[k].ok) /\ (\E k \in SendsTo(w, 7) : ~w.ops[k].ok))
         => w.result.success

\* C20: send_wol_packet returns success False if and only if the address does not
\* normalize or the send to port 9 fails; for an address that does not normalize no
\* socket operation was made; the call does not raise.
C20_WakeFailsOnlyOnAddressOrPrimary ==
  wol.fn = "send_wol_packet" =>
    LET w == wol.calls[1]
    IN /\ ~w.result.success <=>
            (\/ normalize_mac(wol.macs[1]) = NoMac
             \/ \E k \in SendsTo(w, 9) : ~w.ops[k].ok)
       /\ normalize_mac(wol.macs[1]) = NoMac => w.ops = <<>>
       /\ ~wol.raised


\* the characters normalize_mac may write for a digit
UpperHex == {"0", "1", "2", "3", "4", "5", "6", "7", "8", "9", "A", "B", "C", "D", "E", "F"}

\* C21: for an address that normalizes, create_magic_packet returns 102 bytes: six
\* bytes 0xFF, then sixteen times the six bytes of the address in order.
C21_MagicPacketLayout ==
  (wol.fn = "create_magic_packet" /\ Len(wol.digits) = 12) =>
    /\ ~wol.raises
    /\ Len(wol.value) = 102
    /\ \A i \in 1..6 : wol.value[i] = 255
    /\ \A k \in 0..15 : \A j \in 1..6 :
         wol.value[6 + 6 * k + j] =
           16 * HexValue(wol.digits[2 * j - 1]) + HexValue(wol.digits[2 * j])

\* the packet for Ab-Cd-Ef-00-Ff-1e
C21_Witness ==
  /\ wol.fn = "create_magic_packet"
  /\ wol.mac = Spell(<<"A", "b", "C", "d", "E", "f", "0", "0", "F", "f", "1", "e">>, "-", 2)
  /\ Len(wol.value) = 102
  /\ SubSeq(wol.value, 1, 12) = <<255, 255, 255, 255, 255, 255, 171, 205, 239, 0, 255, 30>>
  /\ SubSeq(wol.value, 97, 102) = <<171, 205, 239, 0, 255, 30>>

\* C22: normalize_mac returns, for an input with exactly twelve hexadecimal digits
\* among any other characters, those digits in order as six pairs in upper case
\* joined by colons, and None for an input with another number of digits; a
\* returned address normalizes to itself.
C22_NormalizeMac ==
  wol.fn = "normalize_mac" =>
    IF Len(wol.digits) = 12
    THEN /\ Len(wol.value) = 17
         /\ \A i \in 1..17 :
              IF i % 3 = 0 THEN wol.value[i] = ":"
              ELSE LET d == wol.digits[2 * ((i - 1) \div 3) + ((i - 1) % 3) + 1]
                   IN /\ wol.value[i] \in UpperHex
                      /\ HexValue(wol.value[i]) = HexValue(d)
         /\ normalize_mac(wol.value) = wol.value
    ELSE wol.value = NoMac

\* 0123.4567.89ab becomes 01:23:45:67:89:AB
C22_Witness ==
  /\ wol.fn = "normalize_mac"
  /\ wol.mac = <<"0", "1", "2", "3", ".", "4", "5", "6", "7", ".", "8", "9", "a", "b">>
  /\ wol.value = <<"0", "1", ":", "2", "3", ":", "4", "5", ":", "6", "7", ":", "8", "9",
                   ":", "A", "B">>


\* signature i has at least the fraction of its ports in S that signature j has
FractionAtLeast(i, j, S) ==
  Cardinality(DEVICE_TYPE_SIGNATURES[i].ports \cap S) *
    Cardinality(DEVICE_TYPE_SIGNATURES[j].ports) >=
  Cardinality(DEVICE_TYPE_SIGNATURES[j].ports \cap S) *
    Cardinality(DEVICE_TYPE_SIGNATURES[i].ports)

\* the signatures with the highest fraction of their ports in S
TopSignatures(S) ==
  {i \in 1..Len(DEVICE_TYPE_SIGNATURES) :
     \A j \in 1..Len(DEVICE_TYPE_SIGNATURES) : FractionAtLeast(i, j, S)}

\* the highest fraction is at least one half
TopAccepted(S) ==
  \E i \in TopSignatures(S) :
    2 * Cardinality(DEVICE_TYPE_SIGNATURES[i].ports \cap S) >=
      Cardinality(DEVICE_TYPE_SIGNATURES[i].ports)

\* C23: detect_device_type returns 'unknown' for no open port; else a signature
\* with the highest fraction of its ports open when that fraction is at least 0.5;
\* else ssh_server when 22 is open and 80 is not, else web_server when 80 or 443 is
\* open, else windows_pc when 445 is open, else 'unknown'.
C23_DetectDeviceType ==
  call.fn = "detect_device_type" =>
    LET S == PortNumbers(call.open_ports)
    IN IF S = {} THEN call.value = "unknown"
       ELSE IF TopAccepted(S)
       THEN \E i \in TopSignatures(S) : call.value = DEVICE_TYPE_SIGNATURES[i].type
       ELSE IF 22 \in S /\ 80 \notin S THEN call.value = "ssh_server"
       ELSE IF 80 \in S \/ 443 \in S THEN call.value = "web_server"
       ELSE IF 445 \in S THEN call.value = "windows_pc"
       ELSE call.value = "unknown"

\* 445 alone: nas scores 1/5 and windows_pc 1/3, the fallback answers windows_pc
C23_Witness ==
  /\ call.fn = "detect_device_type"
  /\ PortNumbers(call.open_ports) = {445}
  /\ ~TopAccepted({445})
  /\ call.value = "windows_pc"

\* C24: when the highest fraction is at least 0.5, the signature returned is the
\* first one of the table that has it, whatever the order of the findings.
C24_TiesByTableOrder ==
  call.fn = "detect_device_type" =>
    LET S == PortNumbers(call.open_ports)
    IN (S # {} /\ TopAccepted(S)) =>
         \E i \in TopSignatures(S) :
           /\ \A j \in TopSignatures(S) : i <= j
           /\ call.value = DEVICE_TYPE_SIGNATURES[i].type

\* 80, 443 and 53 open, findings in descending order: router and web_server both
\* score 1, router is returned
C24_Witness ==
  /\ call.fn = "detect_device_type"
  /\ Len(call.open_ports) = 3
  /\ call.open_ports[1].port = 443
  /\ PortNumbers(call.open_ports) = {80, 443, 53}
  /\ {1, 4} \subseteq TopSignatures({80, 443, 53})
  /\ call.value = "router"

\* C25 as stated: 22 alone is classified ssh_server by the single-port fallback, no
\* signature reaching the threshold.
C25_SshOnlyByFallback ==
  (call.fn = "detect_device_type" /\ PortNumbers(call.open_ports) = {22}) =>
    /\ call.value = "ssh_server"
    /\ ~TopAccepted({22})

\* C25 amended: 22 alone is classified ssh_server, and the result is that of the
\* signature ssh_server, whose only port is open: its fraction 1 is the highest and
\* passes the threshold.
C25_SshOnlyBySignature ==
  (call.fn = "detect_device_type" /\ PortNumbers(call.open_ports) = {22}) =>
    /\ call.value = "ssh_server"
    /\ TopAccepted({22})
    /\ \A i \in TopSignatures({22}) : DEVICE_TYPE_SIGNATURES[i].type = call.value

C25_Witness ==
  /\ call.fn = "detect_device_type"
  /\ PortNumbers(call.open_ports) = {22}
  /\ call.value = "ssh_server"
  /\ BestMatchFrom(1, {22}, NoMatch) = [type |-> "ssh_server", matches |-> 1, size |-> 1]


\* C26: the findings scan_device_ports returns are in ascending order of port in
\* whatever order the probes complete; their ports are exactly the requested ports
\* that accepted the connection; each is labelled with the service of COMMON_PORTS,
\* or 'Unknown' for a port the table does not have.
C26_FindingsSortedAndComplete ==
  call.fn = "scan_device_ports" =>
    /\ \A i \in 1..Len(call.value) : \A j \in 1..Len(call.value) :
         i < j => call.value[i].port < call.value[j].port
    /\ PortNumbers(call.value) = SeqRange(call.port_list) \cap call.open
    /\ \A i \in 1..Len(call.value) :
         call.value[i].service =
           IF call.value[i].port \in DOMAIN COMMON_PORTS
           THEN COMMON_PORTS[call.value[i].port] ELSE "Unknown"

\* 80, 22, 31337, 443 requested and all open, the probes completing in the order
\* 443, 31337, 80, 22
C26_Witness ==
  /\ call.fn = "scan_device_ports"
  /\ call.port_list = <<80, 22, 31337, 443>>
  /\ call.order = <<4, 3, 1, 2>>
  /\ call.open = {22, 25, 80, 443, 31337}
  /\ Len(call.value) = 4
  /\ call.value[1].port = 22 /\ call.value[1].service = "SSH"
  /\ call.value[2].port = 80
  /\ call.value[3].port = 443
  /\ call.value[4].port = 31337 /\ call.value[4].service = "Unknown"


\* C27: quick_scan_known_devices returns normally with one result for every device
\* given, under the device's id; a device without address has online False and the
\* message 'No IP address' and its address is never handed to the probe; a device
\* whose check raises has online False.
C27_PollOneResultPerDevice ==
  call.fn = "quick_scan_known_devices" =>
    /\ ~call.raised
    /\ DOMAIN call.value = 1..Len(devices)
    /\ \A id \in 1..Len(devices) :
         /\ call.answers[id] = "raise" => ~call.value[id].online
         /\ (devices[id].ip = NoIp /\ call.answers[id] # "raise") =>
              /\ ~call.value[id].online
              /\ call.value[id].message = "No IP address"
    /\ NoIp \notin SeqRange(call.probed)
    /\ Len(call.probed) =
         Cardinality({id \in 1..Len(devices) :
                        devices[id].ip # NoIp /\ call.answers[id] # "raise"})

\* the check of device 1 raises, device 2 has no address, device 3 answers
C27_Witness ==
  /\ call.fn = "quick_scan_known_devices"
  /\ call.answers[1] = "raise"
  /\ devices[1].ip = 1
  /\ devices[2].ip = NoIp
  /\ devices[3].ip = 2
  /\ call.answers[3] = "up"
  /\ DOMAIN call.value = {1, 2, 3}
  /\ ~call.value[1].online
  /\ call.value[2] = [online |-> FALSE, message |-> "No IP address"]
  /\ call.value[3].online
  /\ call.probed = <<2>>


\* the rows of table devices as the poll's session sees them
PollView == Flushed(PollJob).d

\* C28: the status read for a device is 'unknown' exactly when the device was never
\* seen, 'online' exactly when it was seen less than 600 seconds before the read,
\* and 'offline' otherwise, at exactly 600 seconds too; and the step of the status
\* poll that handles a device that did not answer leaves that device's status as it
\* was.
C28_DerivedStatus ==
  [][/\ call'.fn = "status" =>
          /\ (call'.value = "unknown") <=> (call'.last_seen = Never)
          /\ (call'.value = "online") <=>
               (call'.last_seen # Never /\ call'.at - call'.last_seen < 600)
          /\ (call'.value = "offline") <=>
               (call'.last_seen # Never /\ call'.at - call'.last_seen >= 600)
     /\ \A id \in 1..Len(devices) :
          (poll.pc = "update" /\ id \in poll.todo /\ poll'.todo = poll.todo \ {id}
             /\ ~poll.online[id]) =>
            /\ DeviceStatus(PollView'[id].last_seen, now')
                 = DeviceStatus(PollView[id].last_seen, now)
            /\ DeviceStatus(devices'[id].last_seen, now')
                 = DeviceStatus(devices[id].last_seen, now)]_vars

\* a device that answered a check at second 600 is read offline at second 1200
C28_Witness ==
  /\ call.fn = "status"
  /\ call.last_seen = 600
  /\ call.at = 1200
  /\ call.value = "offline"
  /\ npolls > 0


\* the resolvers, by position, that yield a name in a get_hostname call
Succeeding(out) ==
  {k \in 1..4 : out[Resolvers[k]] \in {"h1", "h2.local", "h3", "H4"}}

\* C29: get_hostname calls reverse DNS, mDNS, SSDP and NetBIOS in this order and
\* stops at the first that yields a name, which it returns (without a '.local'
\* suffix); a resolver that raises, finds nothing or is not installed is followed by
\* the next; None is returned only when none of the four yields a name.
C29_ResolversInOrder ==
  call.fn = "get_hostname" =>
    IF Succeeding(call.out) = {}
    THEN call.value = None /\ call.tried = Resolvers
    ELSE LET first == CHOOSE k \in Succeeding(call.out) :
                        \A j \in Succeeding(call.out) : k <= j
         IN /\ call.tried = SubSeq(Resolvers, 1, first)
            /\ call.value # None
            /\ call.value = StripLocal(call.out[Resolvers[first]])

\* the reverse lookup raises, avahi-resolve-address is not installed, SSDP answers;
\* nmblookup, which would have answered too, is not called
C29_Witness ==
  /\ call.fn = "get_hostname"
  /\ call.out = [dns |-> "error", mdns |-> "unavailable", ssdp |-> "h3", netbios |-> "H4"]
  /\ call.value = "h3"
  /\ call.tried = <<"dns", "mdns", "ssdp">>


\* the entries of the running sweep that are marked as the local host
LocalEntries == {i \in 1..Len(sw.devices) : sw.devices[i].is_local_host}

\* C30: no two entries of a sweep's list have the same address; at most one entry
\* is marked as the local host, it is the last one and carries the local address and
\* hardware address; and when the list is complete it has that entry exactly when
\* the local address and hardware address are both known and no swept entry has the
\* local address.
C30_LocalHostDeduplicated ==
  /\ \A i \in 1..Len(sw.devices) : \A j \in 1..Len(sw.devices) :
       i # j => sw.devices[i].ip # sw.devices[j].ip
  /\ \A i \in LocalEntries :
       /\ i = Len(sw.devices)
       /\ net.local_ip # NoIp
       /\ net.local_mac # None
       /\ sw.devices[i].ip = net.local_ip
       /\ sw.devices[i].mac = net.local_mac
  /\ sw.pc \in {"store_results", "store_time"} =>
       ((LocalEntries # {}) <=>
          /\ net.local_ip # NoIp
          /\ net.local_mac # None
          /\ ~\E i \in 1..Len(sw.devices) :
                ~sw.devices[i].is_local_host /\ sw.devices[i].ip = net.local_ip)

\* the local machine has address 1 and a known hardware address, the sweep found
\* address 1 itself and another host: no local entry is appended
C30_Witness ==
  /\ sw.pc = "store_results"
  /\ net.local_ip = 1
  /\ net.local_mac # None
  /\ Len(sw.devices) = 2
  /\ \E i \in 1..2 : sw.devices[i].ip = 1
  /\ LocalEntries = {}

\* ------------------------------------------------------------- C31
\* the hosts of the range the sweep was called with
SweepTotal == Len(parse_cidr(sw.cidr).hosts)

\* C31: a sweep over N hosts that was given a progress callback has called it, at
\* every moment, once for each probe completed so far, with (1, N), (2, N), ... in
\* that order, whether the probe found a device, found nothing or raised; when the
\* loop over the probes is over the callback has been called exactly N times. A
\* sweep without a callback calls nothing.
C31_ProgressCallback ==
  /\ sw.progress = IF sw.callback THEN [k \in 1..sw.completed |-> <<k, SweepTotal>>]
                   ELSE <<>>
  /\ sw.pc \in {"store_results", "store_time"} \/ sw.exit = "ok"
       => sw.completed = SweepTotal

\* a finished sweep with a callback in which one probe raised (the host answers and
\* resolves, yet the sweep has no entry for it) and one host did not answer
C31_Witness ==
  /\ sw.callback /\ sw.exit = "ok"
  /\ Len(sw.progress) = SweepHosts
  /\ \E ip \in 1..SweepHosts :
       /\ net.ping[ip] /\ net.arp[ip] # None
       /\ ~\E i \in 1..Len(sw.devices) : sw.devices[i].ip = ip
  /\ \E ip \in 1..SweepHosts : ~net.ping[ip]

\* ------------------------------------------------------------- C32
\* C32: an add_device request whose hardware address is given but cannot be
\* normalized ends with 400 and no Device record is created; it does not end in an
\* internal error.
C32_InvalidMacRejected ==
  [][\A s \in AddRequests, raw \in RawMacs, ip \in {NoIp, BadIp} :
       (raw # NoMac /\ normalize_mac(raw) = NoMac /\ AddCheck(s, raw, ip))
         => /\ req'[s].pc = "done"
            /\ req'[s].code = 400
            /\ req'[s].raised = None
            /\ devices' = devices]_vars

\* ------------------------------------------------------------- C33
\* C33: the flag is true in every state in which at least one thread is inside
\* scan_network, also when a manual and a scheduled sweep overlap.
C33_FlagAccurate == RunningSweeps # {} => scan_in_progress

\* ------------------------------------------------------------- C34
\* the reconciliation loop of t has committed the sweep result it was handed
Reconciled(t) == req[t].pc = "done" /\ req[t].raised = None

\* the newest StatusEvent of every device of the result of t is 'online'
FoundOnline(t) ==
  \A i \in 1..Len(req[t].found) :
    LET id == FindByMac(devices, req[t].found[i].mac)
    IN id # 0 /\ LatestStatus(history, id) = "online"

\* C34: once the reconciliation of a manual sweep has committed, every device the
\* sweep found has 'online' as its newest StatusEvent, as after the reconciliation of
\* a scheduled sweep.
C34_ManualSweepRecordsOnline ==
  \A t \in StoreLoops \ {SchedJob} : Reconciled(t) => FoundOnline(t)

\* ------------------------------------------------------------- C35
\* ports of the signatures: both ports of raspberry_pi and, for every other class,
\* ports enough to reach half of its signature
ClassPorts == {22, 53, 80, 443, 445, 548, 554, 631, 1883, 3306, 5432, 8096, 32400}

\* the findings of a scan that found the ports of open open
Findings(open) == scan_device_ports(Sorted(open), open)

\* the classes detect_device_type returns for the sets of open ports among probed
ReturnedFor(probed) == {detect_device_type(Findings(open)) : open \in SUBSET probed}

\* C35: every class of the signature table is returned by detect_device_type for
\* at least one set of open ports.
C35_EveryClassReachable ==
  call.fn = "detect_device_type" =>
    \A i \in 1..Len(DEVICE_TYPE_SIGNATURES) :
      DEVICE_TYPE_SIGNATURES[i].type \in ReturnedFor(ClassPorts)

\* ------------------------------------------------------------- C36
\* C36: the iteration that reconciles a sweep entry into a known device leaves its
\* hardware address, nickname, group, icon, favorite flag and manual flag as they
\* were, sets the address and the probe time of the entry and the time of the
\* update, sets the name of the entry when the sweep resolved one and keeps the
\* stored name when it resolved none; no device is removed.
C36_ReconcileFrame ==
  [][call'.fn = "reconcile" /\ call.fn = None /\ call'.existing # 0 =>
       LET id == call'.existing
           old == devices[id]
           new == devices'[id]
           e == call.entry
       IN /\ Len(devices') = Len(devices)
          /\ \A j \in 1..Len(devices) : j # id => devices'[j] = devices[j]
          /\ DOMAIN new = DOMAIN old
          /\ \A f \in DOMAIN old \ {"ip", "hostname", "last_seen", "updated_at"} :
               new[f] = old[f]
          /\ new.ip = e.ip
          /\ new.hostname = IF e.hostname # None THEN e.hostname ELSE old.hostname
          /\ new.last_seen = e.last_seen
          /\ new.updated_at = now]_vars

\* a hand-added favourite with nickname, group and name was found at another address
\* by a sweep that resolved no name
C36_Witness ==
  /\ call.fn = "reconcile" /\ call.existing = 1
  /\ call.entry.hostname = None /\ call.entry.ip = 2
  /\ devices[1].hostname = "h1" /\ devices[1].nickname = "n1" /\ devices[1].group = "g1"
  /\ devices[1].is_favorite /\ devices[1].is_manual
  /\ devices[1].ip = 2 /\ devices[1].last_seen = 1 /\ devices[1].updated_at = 2

JobsWithId(jobs, id) == {i \in 1..Len(jobs) : jobs[i].id = id}

\* the table pairs the two periodic jobs and holds the cleanup job
JobsPaired(jobs) ==
  /\ Cardinality(JobsWithId(jobs, "network_scan")) <= 1
  /\ Cardinality(JobsWithId(jobs, "network_scan")) =
       Cardinality(JobsWithId(jobs, "status_check"))
  /\ Cardinality(JobsWithId(jobs, "history_cleanup")) = 1
  /\ Len(jobs) <= 3

\* what one call does to the table
JobsStep ==
  /\ (call'.fn = "update_scan_interval") =>
       /\ Len(call'.jobs) = Len(call.jobs)
       /\ \A i \in 1..Len(call.jobs) :
            /\ call'.jobs[i].id = call.jobs[i].id
            /\ call'.jobs[i].func = call.jobs[i].func
  /\ (call'.fn = "toggle_auto_scan" /\ ~call'.enabled) =>
       JobsWithId(call'.jobs, "network_scan") = {}
  /\ (call'.fn = "toggle_auto_scan" /\ call'.enabled /\ call'.seconds # BadInterval) =>
       \E i \in JobsWithId(call'.jobs, "network_scan") :
         call'.jobs[i].seconds = call'.seconds

\* C38: after init_scheduler and any toggle_auto_scan and update_scan_interval calls
\* the sweep job and the status-check job are both in the table or both absent,
\* each at most once, and the cleanup job is in the table exactly once; a
\* toggle_auto_scan(false) leaves the two absent, a toggle_auto_scan(true) whose
\* interval setting is readable leaves both present, and update_scan_interval
\* neither adds nor removes a job.
C38_JobsPaired == [](JobsPaired(call.jobs)) /\ [][JobsStep]_vars

\* automatic scanning was switched on and off again, and update_scan_interval was
\* then called with a valid interval: only the cleanup job is in the table
C38_Witness ==
  /\ call.n = 3 /\ call.fn = "update_scan_interval" /\ call.seconds = 60
  /\ Len(call.jobs) = 1
  /\ call.jobs[1].id = "history_cleanup"

\* ------------------------------------------------------------- C39
\* C39: a run of the retention cleanup with a readable retention setting removes
\* the StatusEvents recorded before now minus the retention days and no other: the
\* events at or after the cutoff are all kept, as they were and in their order; the
\* Device records, the port findings and the alerts are as before. A run that
\* cannot read the setting removes nothing.
C39_CleanupExact ==
  [][call'.fn = "cleanup_old_history" /\ call.fn = None =>
       LET cutoff == now - call'.retention_days
           kept == IF call'.retention_days = BadRetention THEN 1..Len(history)
                   ELSE {i \in 1..Len(history) : history[i].timestamp >= cutoff}
       IN /\ Len(history') = Cardinality(kept)
          /\ \A i \in kept : \E k \in 1..Len(history') : history'[k] = history[i]
          /\ \A k \in 1..Len(history') : \E i \in kept : history'[k] = history[i]
          /\ \A k \in 1..(Len(history') - 1) : history'[k].id < history'[k + 1].id
          /\ call'.deleted = Len(history) - Cardinality(kept)
          /\ devices' = devices /\ ports' = ports /\ alerts' = alerts]_vars

\* thirty days of retention on day 40: of the events of days 9, 10 and 11 the first
\* was deleted and the one recorded at the cutoff was kept
C39_Witness ==
  /\ call.fn = "cleanup_old_history" /\ call.retention_days = 30 /\ call.deleted = 1
  /\ Len(history) = 2
  /\ history[1].timestamp = 10 /\ history[1].id = 2
  /\ history[2].timestamp = 11
  /\ devices # <<>> /\ ports # {} /\ alerts # <<>>

====
